---- MODULE Spec2Model ----
(***************************************************************************)
(* Markdown -> Google Docs batchUpdate request translator                  *)
(* (MarkdownProcessor of n8n-nodes-md-to-docs).                            *)
(*                                                                         *)
(* The repository holds three generations of MarkdownProcessor:            *)
(*   "jsdom"     src/nodes/MarkdownToGoogleDocs/markdown-processor.ts      *)
(*   "multiline" src/unnamed/part_009, lines 2391-3696 (jsdom, list items  *)
(*               split into lines at <br>)                                 *)
(*   "cheerio"   src/unnamed/part_009, lines 1010-2390                     *)
(* The variable `version` selects the generation a conversion runs.        *)
(*                                                                         *)
(* Text is a sequence of one-character strings, so that Len is the         *)
(* JavaScript string length (UTF-16 code units).                           *)
(***************************************************************************)
EXTENDS Integers, Sequences, FiniteSets, TLC

NL  == "\n"
TAB == "\t"
SP  == " "

Versions == {"jsdom", "multiline", "cheerio"}

Max(a, b) == IF a >= b THEN a ELSE b

(***************************************************************************)
(* String helpers                                                          *)
(***************************************************************************)
IsSpace(c) == c \in {SP, NL, TAB}

RECURSIVE trimStart(_)
trimStart(s) ==
    IF s = <<>> THEN <<>>
    ELSE IF IsSpace(Head(s)) THEN trimStart(Tail(s))
    ELSE s

RECURSIVE trimEnd(_)
trimEnd(s) ==
    IF s = <<>> THEN <<>>
    ELSE IF IsSpace(s[Len(s)]) THEN trimEnd(SubSeq(s, 1, Len(s) - 1))
    ELSE s

trim(s) == trimEnd(trimStart(s))

\* '\t'.repeat(n)
RECURSIVE repeatTab(_)
repeatTab(n) == IF n <= 0 THEN <<>> ELSE <<TAB>> \o repeatTab(n - 1)

\* text.replace(/\n/g, '')
stripNewlines(s) == SelectSeq(s, LAMBDA c : c # NL)

\* s.split('\n')
RECURSIVE splitLines(_)
splitLines(s) ==
    IF \A i \in 1..Len(s) : s[i] # NL THEN <<s>>
    ELSE LET k == CHOOSE i \in 1..Len(s) :
                      s[i] = NL /\ \A j \in 1..(i - 1) : s[j] # NL
         IN <<SubSeq(s, 1, k - 1)>> \o splitLines(SubSeq(s, k + 1, Len(s)))

RECURSIVE SumSeq(_)
SumSeq(s) == IF s = <<>> THEN 0 ELSE Head(s) + SumSeq(Tail(s))

RECURSIVE Flatten(_)
Flatten(ss) == IF ss = <<>> THEN <<>> ELSE Head(ss) \o Flatten(Tail(ss))

(***************************************************************************)
(* DOM nodes, as the HTML parser hands them to the processor               *)
(***************************************************************************)
NoUrl == [scheme |-> "", len |-> 0, ext |-> FALSE, service |-> FALSE, parses |-> FALSE]
NoAttr == [href |-> "", checked |-> FALSE, src |-> NoUrl, alt |-> <<>>]

Txt(s)        == [name |-> "#text", text |-> s, kids |-> <<>>, attr |-> NoAttr]
El(n, kids)   == [name |-> n, text |-> <<>>, kids |-> kids, attr |-> NoAttr]
Link(kids, h) == [name |-> "A", text |-> <<>>, kids |-> kids,
                  attr |-> [NoAttr EXCEPT !.href = h]]
Checkbox(c)   == [name |-> "INPUT", text |-> <<>>, kids |-> <<>>,
                  attr |-> [NoAttr EXCEPT !.checked = c]]
Img(u, a)     == [name |-> "IMG", text |-> <<>>, kids |-> <<>>,
                  attr |-> [NoAttr EXCEPT !.src = u, !.alt = a]]

IsText(node) == node.name = "#text"

\* element.textContent / $(element).text()
RECURSIVE textContent(_)
textContent(node) ==
    IF IsText(node) THEN node.text
    ELSE Flatten([i \in 1..Len(node.kids) |-> textContent(node.kids[i])])

\* element.querySelector(tag) !== null, for any tag of `tags`
RECURSIVE hasDescendant(_, _)
hasDescendant(node, tags) ==
    \E i \in 1..Len(node.kids) :
        node.kids[i].name \in tags \/ hasDescendant(node.kids[i], tags)

\* element.querySelectorAll(tags): the descendants named in `tags`, in
\* document order
RECURSIVE descendants(_, _)
descendants(node, tags) ==
    Flatten([i \in 1..Len(node.kids) |->
        (IF node.kids[i].name \in tags THEN <<node.kids[i]>> ELSE <<>>)
            \o descendants(node.kids[i], tags)])

(***************************************************************************)
(* Requests (GoogleDocsRequest).  One record shape for every operation;    *)
(* fields an operation does not carry are 0 or "".                         *)
(***************************************************************************)
NoReq == [op |-> "", index |-> 0, text |-> <<>>, startIndex |-> 0, endIndex |-> 0,
          style |-> "", magnitude |-> 0, rows |-> 0, columns |-> 0]

InsertText(i, t) == [NoReq EXCEPT !.op = "insertText", !.index = i, !.text = t]
UpdateTextStyle(s, e, st) ==
    [NoReq EXCEPT !.op = "updateTextStyle", !.startIndex = s, !.endIndex = e, !.style = st]
UpdateParagraphStyle(s, e, st) ==
    [NoReq EXCEPT !.op = "updateParagraphStyle", !.startIndex = s, !.endIndex = e,
                  !.style = st]
CreateParagraphBullets(s, e, preset) ==
    [NoReq EXCEPT !.op = "createParagraphBullets", !.startIndex = s, !.endIndex = e,
                  !.style = preset]
DeleteParagraphBullets(s, e) ==
    [NoReq EXCEPT !.op = "deleteParagraphBullets", !.startIndex = s, !.endIndex = e]
InsertTable(i, r, c) ==
    [NoReq EXCEPT !.op = "insertTable", !.index = i, !.rows = r, !.columns = c]
InsertInlineImage(i) == [NoReq EXCEPT !.op = "insertInlineImage", !.index = i]
InsertPageBreak(i) == [NoReq EXCEPT !.op = "insertPageBreak", !.index = i]

RangeOps == {"updateTextStyle", "updateParagraphStyle", "createParagraphBullets",
             "deleteParagraphBullets"}
LocationOps == {"insertText", "insertTable", "insertInlineImage", "insertPageBreak"}

InsertTexts(reqs) == SelectSeq(reqs, LAMBDA r : r.op = "insertText")

(***************************************************************************)
(* Cursor tracker                                                          *)
(***************************************************************************)
\* mutation: the cursor moved by everything the block inserted
calculateNewIndexBySum(reqs) ==
    LET ins == InsertTexts(reqs)
    IN IF ins # <<>>
       THEN ins[1].index + SumSeq([i \in 1..Len(ins) |-> Len(ins[i].text)])
       ELSE 1

\* mutation: the cursor counted from the start of an empty document
calculateNewIndexFromOne(reqs) ==
    LET ins == InsertTexts(reqs)
    IN IF ins # <<>>
       THEN 1 + ins[Len(ins)].index - ins[1].index + Len(ins[Len(ins)].text)
       ELSE 1

calculateNewIndex(reqs) ==
    LET ins == InsertTexts(reqs)
    IN IF ins # <<>>
       THEN ins[Len(ins)].index + Len(ins[Len(ins)].text)
       ELSE 1

(***************************************************************************)
(* Inline formatter                                                        *)
(***************************************************************************)
getFormatType(nodeName) ==
    CASE nodeName \in {"STRONG", "B"} -> "bold"
      [] nodeName \in {"EM", "I"}     -> "italic"
      [] nodeName = "CODE"            -> "code"
      [] nodeName = "A"               -> "link"
      [] OTHER                        -> "none"

FormatRange(s, e, t, u) == [start |-> s, end |-> e, type |-> t, url |-> u]

\* The loop of processChildNodes from node k on: `result` is the text built so
\* far, `ranges` the shared formatRanges array.  A nested element pushes the
\* ranges of its subtree first and its own range after them.
RECURSIVE processChildNodesFrom(_, _, _, _, _, _)
processChildNodesFrom(v, childNodes, k, baseOffset, result, ranges) ==
    IF k > Len(childNodes) THEN [text |-> result, ranges |-> ranges]
    ELSE LET node == childNodes[k] IN
         IF IsText(node)
         THEN processChildNodesFrom(v, childNodes, k + 1, baseOffset,
                  result \o (IF v = "cheerio" THEN stripNewlines(node.text)
                             ELSE node.text),
                  ranges)
         ELSE IF v # "jsdom" /\ node.name = "BR"
         THEN processChildNodesFrom(v, childNodes, k + 1, baseOffset,
                  result \o <<NL>>, ranges)
         ELSE LET beforeLength == Len(result)
                  child == processChildNodesFrom(v, node.kids, 1,
                               baseOffset + beforeLength, <<>>, ranges)
                  afterLength == beforeLength + Len(child.text)
                  formatType == getFormatType(node.name)
                  pushed ==
                      IF beforeLength < afterLength /\ formatType # "none"
                      THEN Append(child.ranges,
                               FormatRange(baseOffset + beforeLength,
                                           baseOffset + afterLength, formatType,
                                           IF node.name = "A" THEN node.attr.href ELSE ""))
                      ELSE child.ranges
              IN processChildNodesFrom(v, childNodes, k + 1, baseOffset,
                     result \o child.text, pushed)

\* mutation: offsets counted from 1
processChildNodesOneBased(v, childNodes) ==
    processChildNodesFrom(v, childNodes, 1, 1, <<>>, <<>>)

processChildNodes(v, childNodes) ==
    processChildNodesFrom(v, childNodes, 1, 0, <<>>, <<>>)

\* cheerio only: the nodes of one list line; text nodes keep their newlines
RECURSIVE processChildNodesFromArrayFrom(_, _, _, _)
processChildNodesFromArrayFrom(nodes, k, result, ranges) ==
    IF k > Len(nodes) THEN [text |-> result, ranges |-> ranges]
    ELSE LET node == nodes[k] IN
         IF IsText(node)
         THEN processChildNodesFromArrayFrom(nodes, k + 1, result \o node.text, ranges)
         ELSE LET beforeLength == Len(result)
                  child == processChildNodesFrom("cheerio", node.kids, 1,
                               beforeLength, <<>>, ranges)
                  afterLength == beforeLength + Len(child.text)
                  formatType == getFormatType(node.name)
                  pushed ==
                      IF beforeLength < afterLength /\ formatType # "none"
                      THEN Append(child.ranges,
                               FormatRange(beforeLength, afterLength, formatType,
                                           IF node.name = "A" THEN node.attr.href ELSE ""))
                      ELSE child.ranges
              IN processChildNodesFromArrayFrom(nodes, k + 1,
                     result \o child.text, pushed)

processChildNodesFromArray(nodes) ==
    processChildNodesFromArrayFrom(nodes, 1, <<>>, <<>>)

hasInlineFormatting(v, element) ==
    hasDescendant(element,
        IF v = "jsdom" THEN {"STRONG", "B", "EM", "I", "CODE", "A"}
        ELSE {"STRONG", "B", "EM", "I", "CODE", "A", "BR"})

\* null is the empty sequence, a request a one-element sequence
createFormatRequest(range, insertIndex) ==
    IF range.type \in {"bold", "italic", "code"} \/ (range.type = "link" /\ range.url # "")
    THEN <<UpdateTextStyle(insertIndex + range.start, insertIndex + range.end, range.type)>>
    ELSE <<>>

\* for (const range of formatRanges) { push createFormatRequest(range, index) }
formatRequests(ranges, insertIndex) ==
    Flatten([i \in 1..Len(ranges) |-> createFormatRequest(ranges[i], insertIndex)])

(***************************************************************************)
(* Lists                                                                   *)
(*                                                                         *)
(* A flattened item is [level, lines]; a line is [text, isPrimary,         *)
(* formatRanges].  The jsdom generation has no lines: its item {text,      *)
(* level, formatRanges} is carried here as an item of one primary line.    *)
(***************************************************************************)
\* The glyph strings as the source files spell them, one element per UTF-16
\* code unit.  The cheerio file holds them mis-decoded (4 and 3 code units).
checkboxPrefix(v, checked) ==
    IF v = "cheerio"
    THEN (IF checked THEN <<"U+00E2", "U+0153", "U+2026", SP>>
                     ELSE <<"U+00E2", "U+0152", SP>>)
    ELSE (IF checked THEN <<"U+2705", SP>> ELSE <<"U+274C", SP>>)

Line(t, p, r) == [text |-> t, isPrimary |-> p, formatRanges |-> r]

shiftRanges(ranges, d) ==
    [i \in 1..Len(ranges) |->
        [ranges[i] EXCEPT !.start = @ + d, !.end = @ + d]]

\* range.start = Math.max(0, range.start - leadingSpaces), same for end
unshiftRanges(ranges, leadingSpaces) ==
    [i \in 1..Len(ranges) |->
        [ranges[i] EXCEPT !.start = Max(0, @ - leadingSpaces),
                          !.end = Max(0, @ - leadingSpaces)]]

\* One line from the text and ranges gathered for it: text trimmed; the jsdom
\* generations move the ranges left by the leading whitespace removed, cheerio
\* does not.
trimmedLine(v, r, isPrimary) ==
    Line(trim(r.text), isPrimary,
         IF v # "cheerio" /\ Len(r.text) - Len(trimStart(r.text)) > 0
         THEN unshiftRanges(r.ranges, Len(r.text) - Len(trimStart(r.text)))
         ELSE r.ranges)

lineFromNodes(v, nodes, isPrimary) ==
    trimmedLine(v, IF v = "cheerio" THEN processChildNodesFromArray(nodes)
                   ELSE processChildNodes(v, nodes),
                isPrimary)

nonNestedChildren(listItem) ==
    SelectSeq(listItem.kids, LAMBDA c : c.name \notin {"UL", "OL"})

\* multiline and cheerio: the loop over an item's children, cutting at <br>;
\* `line` is the line the nodes gathered so far would make
RECURSIVE linesFrom(_, _, _, _, _, _)
linesAt(v, children, k, currentLineNodes, isPrimaryLine, lines, line) ==
    IF k > Len(children)
    THEN IF currentLineNodes # <<>> /\ line.text # <<>>
         THEN Append(lines, line)
         ELSE lines
    ELSE IF children[k].name = "BR"
    THEN linesFrom(v, children, k + 1, <<>>, FALSE,
             IF line.text # <<>> \/ Len(lines) > 0 THEN Append(lines, line) ELSE lines)
    ELSE linesFrom(v, children, k + 1, Append(currentLineNodes, children[k]),
             isPrimaryLine, lines)

linesFrom(v, children, k, currentLineNodes, isPrimaryLine, lines) ==
    linesAt(v, children, k, currentLineNodes, isPrimaryLine, lines,
            lineFromNodes(v, currentLineNodes, isPrimaryLine))

withPrefix(lines, prefix) ==
    IF prefix # <<>> /\ Len(lines) > 0
    THEN [lines EXCEPT ![1] = Line(prefix \o lines[1].text, lines[1].isPrimary,
                                   shiftRanges(lines[1].formatRanges, Len(prefix)))]
    ELSE lines

\* checkboxPrefix of one <li>: jsdom whenever the item holds a checkbox, the
\* later generations only under the BULLET_CHECKBOX preset
itemPrefix(v, inputs, bulletPreset) ==
    IF inputs # <<>> /\ (v = "jsdom" \/ bulletPreset = "BULLET_CHECKBOX")
    THEN checkboxPrefix(v, inputs[1].attr.checked)
    ELSE <<>>

\* The lines of one <li>, nested lists left out (the body of the for loop of
\* processListItemsRecursively up to items.push)
itemLines(v, listItem, bulletPreset) ==
    withPrefix(IF v = "jsdom"
               THEN <<lineFromNodes(v, nonNestedChildren(listItem), TRUE)>>
               ELSE linesFrom(v, nonNestedChildren(listItem), 1, <<>>, TRUE, <<>>),
               itemPrefix(v, descendants(listItem, {"INPUT"}), bulletPreset))

\* items.push: jsdom pushes every item, the later generations those with lines
itemEntry(v, level, lines) ==
    IF v = "jsdom" \/ Len(lines) > 0
    THEN <<[level |-> level, lines |-> lines]>>
    ELSE <<>>

directListItems(element) == SelectSeq(element.kids, LAMBDA c : c.name = "LI")

nestedLists(listItem) == SelectSeq(listItem.kids, LAMBDA c : c.name \in {"UL", "OL"})

\* mutation: the items of the nested lists put after all items of the list
RECURSIVE processListItemsSiblingsFirst(_, _, _, _)
processListItemsSiblingsFirst(v, element, level, bulletPreset) ==
    Flatten([i \in 1..Len(directListItems(element)) |->
        itemEntry(v, level, itemLines(v, directListItems(element)[i], bulletPreset))])
    \o Flatten([i \in 1..Len(directListItems(element)) |->
        Flatten([n \in 1..Len(nestedLists(directListItems(element)[i])) |->
               processListItemsSiblingsFirst(v,
                   nestedLists(directListItems(element)[i])[n],
                   level + 1, bulletPreset)])])

RECURSIVE processListItemsRecursively(_, _, _, _)
processListItemsRecursively(v, element, level, bulletPreset) ==
    Flatten([i \in 1..Len(directListItems(element)) |->
        itemEntry(v, level, itemLines(v, directListItems(element)[i], bulletPreset))
        \o Flatten([n \in 1..Len(nestedLists(directListItems(element)[i])) |->
               processListItemsRecursively(v,
                   nestedLists(directListItems(element)[i])[n],
                   level + 1, bulletPreset)])])

\* lineMetadata: every line of every item in order, with the offset it is
\* inserted at (tabs in place) and the text inserted for it
\* mutation: the tabs of the nesting level left out
textToInsertNoTabs(level, line) == line.text

textToInsert(level, line) ==
    (IF line.isPrimary THEN repeatTab(level) ELSE <<>>) \o line.text

flatLines(items) ==
    Flatten([i \in 1..Len(items) |->
        [j \in 1..Len(items[i].lines) |->
            [line |-> items[i].lines[j], level |-> items[i].level,
             textToInsert |-> textToInsert(items[i].level, items[i].lines[j])]]])

RECURSIVE lineStart(_, _, _)
lineStart(metas, k, first) ==
    IF k <= 1 THEN first
    ELSE lineStart(metas, k - 1, first) + Len(metas[k - 1].textToInsert) + 1

metadataOf(metas, first) ==
    [k \in 1..Len(metas) |->
        [line |-> metas[k].line, level |-> metas[k].level,
         startIndex |-> lineStart(metas, k, first),
         textToInsert |-> metas[k].textToInsert]]

lineMetadata(items, first) == metadataOf(flatLines(items), first)

fullTextToInsert(metas) ==
    Flatten([k \in 1..Len(metas) |-> metas[k].textToInsert \o <<NL>>])

\* multiline and cheerio, phase 3: totalTabsRemoved when line k is reached
RECURSIVE totalTabsRemoved(_, _)
totalTabsRemoved(metas, k) ==
    IF k <= 1 THEN 0
    ELSE totalTabsRemoved(metas, k - 1)
         + (IF metas[k - 1].line.isPrimary THEN metas[k - 1].level ELSE 0)

\* jsdom: the inner loop that counts the tabs of the items placed before the
\* item that starts at itemStartIndex
RECURSIVE totalTabsRemovedBefore(_, _, _, _, _)
totalTabsRemovedBefore(metas, k, currentItemPos, itemStartIndex, acc) ==
    IF k > Len(metas) THEN acc
    ELSE IF currentItemPos = itemStartIndex THEN acc
    ELSE totalTabsRemovedBefore(metas, k + 1,
             currentItemPos + Len(metas[k].textToInsert) + 1, itemStartIndex,
             IF currentItemPos < itemStartIndex THEN acc + metas[k].level ELSE acc)

\* mutation: the line's own tabs counted among those removed before it
adjustedStartIndexOwnTab(v, metas, k, insertIndex) ==
    metas[k].startIndex - totalTabsRemoved(metas, k + 1)

\* mutation: the levels of secondary lines counted as well
adjustedStartIndexEveryLine(v, metas, k, insertIndex) ==
    metas[k].startIndex - SumSeq([j \in 1..(k - 1) |-> metas[j].level])

\* The corrected start offset the formatting of line k is anchored at
adjustedStartIndex(v, metas, k, insertIndex) ==
    IF v = "jsdom"
    THEN metas[k].startIndex
         - totalTabsRemovedBefore(metas, 1, insertIndex + 1, metas[k].startIndex, 0)
    ELSE metas[k].startIndex - totalTabsRemoved(metas, k)

\* mutation: the indentation taken from the level itself
lineRequestsAtLevelIndent(metas, k, adjustedStart) ==
    formatRequests(metas[k].line.formatRanges, adjustedStart)
    \o (IF ~metas[k].line.isPrimary
        THEN <<DeleteParagraphBullets(adjustedStart,
                   adjustedStart + Len(metas[k].textToInsert)),
               [UpdateParagraphStyle(adjustedStart,
                    adjustedStart + Len(metas[k].textToInsert), "indent")
                   EXCEPT !.magnitude = 36 * metas[k].level]>>
        ELSE <<>>)

lineRequestsAt(metas, k, adjustedStart) ==
    formatRequests(metas[k].line.formatRanges, adjustedStart)
    \o (IF ~metas[k].line.isPrimary
        THEN <<DeleteParagraphBullets(adjustedStart,
                   adjustedStart + Len(metas[k].textToInsert)),
               [UpdateParagraphStyle(adjustedStart,
                    adjustedStart + Len(metas[k].textToInsert), "indent")
                   EXCEPT !.magnitude = 36 * (metas[k].level + 1)]>>
        ELSE <<>>)

lineRequests(v, metas, k, insertIndex) ==
    lineRequestsAt(metas, k, adjustedStartIndex(v, metas, k, insertIndex))

\* jsdom: one InsertText per item
processListJsdom(items, metas, insertIndex, bulletPreset) ==
    LET currentIndex == insertIndex + 1 + Len(fullTextToInsert(metas))
        tabsRemoved == SumSeq([i \in 1..Len(items) |-> items[i].level])
    IN <<InsertText(insertIndex, <<NL>>)>>
       \o [k \in 1..Len(metas) |->
              InsertText(metas[k].startIndex, metas[k].textToInsert \o <<NL>>)]
       \o (IF Len(items) > 0
           THEN <<CreateParagraphBullets(insertIndex + 1, currentIndex - 1, bulletPreset)>>
                \o Flatten([k \in 1..Len(metas) |->
                       lineRequests("jsdom", metas, k, insertIndex)])
           ELSE <<>>)
       \o <<InsertText((currentIndex - 1 - tabsRemoved) + 1, <<NL>>)>>

\* multiline: newline, one InsertText for the whole list, bullets, corrections,
\* closing newline
processListMultiline(items, metas, insertIndex, bulletPreset) ==
    LET initialListIndex == insertIndex + 1
        listEndIndex == initialListIndex + Len(fullTextToInsert(metas)) - 1
        finalEndIndex == listEndIndex - totalTabsRemoved(metas, Len(metas) + 1)
    IN IF Len(items) = 0 THEN <<>>
       ELSE <<InsertText(insertIndex, <<NL>>),
              InsertText(initialListIndex, fullTextToInsert(metas)),
              CreateParagraphBullets(initialListIndex, listEndIndex, bulletPreset)>>
            \o Flatten([k \in 1..Len(metas) |->
                   lineRequests("multiline", metas, k, insertIndex)])
            \o <<InsertText(finalEndIndex + 1, <<NL>>)>>

\* cheerio: no newline before or after; spacing on the first and last line,
\* both anchored at startIndex - totalTabsRemoved with the final total
processListCheerio(items, metas, insertIndex, bulletPreset) ==
    LET listEndIndex == insertIndex + Len(fullTextToInsert(metas)) - 1
        total == totalTabsRemoved(metas, Len(metas) + 1)
        firstItemMeta == metas[1]
        lastItemMeta == metas[Len(metas)]
    IN IF Len(items) = 0 THEN <<>>
       ELSE <<InsertText(insertIndex, fullTextToInsert(metas)),
              CreateParagraphBullets(insertIndex, listEndIndex, bulletPreset)>>
            \o Flatten([k \in 1..Len(metas) |->
                   lineRequests("cheerio", metas, k, insertIndex)])
            \o <<UpdateParagraphStyle(firstItemMeta.startIndex - total,
                     firstItemMeta.startIndex - total + Len(firstItemMeta.textToInsert),
                     "spaceAbove"),
                 UpdateParagraphStyle(lastItemMeta.startIndex - total,
                     lastItemMeta.startIndex - total + Len(lastItemMeta.textToInsert),
                     "spaceBelow")>>

\* processList of the generation v, from the flattened items on
listRequests(v, items, insertIndex, bulletPreset) ==
    CASE v = "jsdom" ->
           processListJsdom(items, lineMetadata(items, insertIndex + 1),
                            insertIndex, bulletPreset)
      [] v = "multiline" ->
           processListMultiline(items, lineMetadata(items, insertIndex + 1),
                                insertIndex, bulletPreset)
      [] v = "cheerio" ->
           processListCheerio(items, lineMetadata(items, insertIndex),
                              insertIndex, bulletPreset)

processList(v, element, insertIndex, bulletPreset) ==
    listRequests(v, processListItemsRecursively(v, element, 0, bulletPreset),
                 insertIndex, bulletPreset)

processUnorderedList(v, element, insertIndex) ==
    processList(v, element, insertIndex,
        IF descendants(element, {"INPUT"}) # <<>>
        THEN "BULLET_CHECKBOX"
        ELSE "BULLET_DISC_CIRCLE_SQUARE")

processOrderedList(v, element, insertIndex) ==
    processList(v, element, insertIndex, "NUMBERED_DECIMAL_ALPHA_ROMAN")

(***************************************************************************)
(* Headings, paragraphs, images                                            *)
(***************************************************************************)
headingLevel(nodeName) ==
    CASE nodeName = "H1" -> 1 [] nodeName = "H2" -> 2 [] nodeName = "H3" -> 3
      [] nodeName = "H4" -> 4 [] nodeName = "H5" -> 5 [] nodeName = "H6" -> 6

getHeadingStyleType(depth) ==
    IF depth \in 1..6
    THEN <<"HEADING_1", "HEADING_2", "HEADING_3", "HEADING_4", "HEADING_5",
           "HEADING_6">>[depth]
    ELSE "NORMAL_TEXT"

\* mutation: the style range taken over the inserted text, newline included
processHeadingOverNewline(element, insertIndex) ==
    LET text == textContent(element)
    IN <<InsertText(insertIndex, text \o <<NL>>),
         UpdateParagraphStyle(insertIndex, insertIndex + Len(text \o <<NL>>),
             getHeadingStyleType(headingLevel(element.name)))>>

processHeading(element, insertIndex) ==
    LET text == textContent(element)
    IN <<InsertText(insertIndex, text \o <<NL>>),
         UpdateParagraphStyle(insertIndex, insertIndex + Len(text),
             getHeadingStyleType(headingLevel(element.name)))>>

isValidImageUrl(url) ==
    IF ~url.parses THEN FALSE
    ELSE IF url.scheme \notin {"http:", "https:"} THEN FALSE
    ELSE url.ext \/ url.service

\* the characters of src: only their number matters
urlText(n) == [i \in 1..n |-> "u"]

\* the camera glyph of displayText: a surrogate pair in the jsdom files, four
\* mis-decoded code units in the cheerio file
cameraGlyph(v) ==
    IF v = "cheerio" THEN <<"U+00F0", "U+0178", "U+201C", "U+00B7">>
    ELSE <<"U+D83D", "U+DCF7">>

processImageFallback(v, alt, src, insertIndex) ==
    LET displayText == cameraGlyph(v) \o <<SP>> \o alt
                       \o <<" ", "i", "n", "v", "a", "l", "i", "d", " ", "s", "o", "u", "r", "c", "e", " ", "a", "d", "d", "r", "e", "s", "s", "!">>
        sourceText == IF src.len > 0
                      THEN <<NL>> \o <<"S", "o", "u", "r", "c", "e", ":", " ">> \o urlText(src.len)
                      ELSE <<>>
        fullText == displayText \o sourceText \o <<NL, NL>>
    IN <<InsertText(insertIndex, fullText),
         UpdateTextStyle(insertIndex, insertIndex + Len(displayText), "placeholder")>>
       \o (IF sourceText # <<>>
           THEN <<UpdateTextStyle(insertIndex + Len(displayText) + 1,
                      insertIndex + Len(displayText) + Len(sourceText), "source")>>
           ELSE <<>>)

\* width and height only fill objectSize of the image request; they move no
\* offset and are left out
\* mutation: the closing newline placed without stepping over the image
processImageNoSkip(v, element, insertIndex) ==
    LET src == element.attr.src
        alt == IF element.attr.alt # <<>> THEN element.attr.alt ELSE <<"I", "m", "a", "g", "e">>
    IN IF src.len = 0 \/ src.len > 2000 \/ ~isValidImageUrl(src)
       THEN processImageFallback(v, alt, src, insertIndex)
       ELSE <<InsertText(insertIndex, <<NL>>),
              InsertInlineImage(insertIndex + 1),
              InsertText(insertIndex + 1, <<NL>>)>>

\* mutation: a source of 2000 characters turned away as well
processImageUnder2000(v, element, insertIndex) ==
    LET src == element.attr.src
        alt == IF element.attr.alt # <<>> THEN element.attr.alt ELSE <<"I", "m", "a", "g", "e">>
    IN IF src.len = 0 \/ src.len >= 2000 \/ ~isValidImageUrl(src)
       THEN processImageFallback(v, alt, src, insertIndex)
       ELSE <<InsertText(insertIndex, <<NL>>),
              InsertInlineImage(insertIndex + 1),
              InsertText(insertIndex + 1 + 1, <<NL>>)>>

\* mutation: the second check, isValidImageUrl, left out
processImageUnchecked(v, element, insertIndex) ==
    LET src == element.attr.src
        alt == IF element.attr.alt # <<>> THEN element.attr.alt ELSE <<"I", "m", "a", "g", "e">>
    IN IF src.len = 0 \/ src.len > 2000
       THEN processImageFallback(v, alt, src, insertIndex)
       ELSE <<InsertText(insertIndex, <<NL>>),
              InsertInlineImage(insertIndex + 1),
              InsertText(insertIndex + 1 + 1, <<NL>>)>>

processImage(v, element, insertIndex) ==
    LET src == element.attr.src
        alt == IF element.attr.alt # <<>> THEN element.attr.alt ELSE <<"I", "m", "a", "g", "e">>
    IN IF src.len = 0 \/ src.len > 2000
       THEN processImageFallback(v, alt, src, insertIndex)
       ELSE IF ~isValidImageUrl(src)
       THEN processImageFallback(v, alt, src, insertIndex)
       ELSE <<InsertText(insertIndex, <<NL>>),
              InsertInlineImage(insertIndex + 1),
              InsertText(insertIndex + 1 + 1, <<NL>>)>>

\* processMixedContent: the loop over the paragraph's child nodes from k on
RECURSIVE mixedContentFrom(_, _, _, _, _)
mixedContentFrom(v, children, k, currentIndex, reqs) ==
    IF k > Len(children)
    THEN Append(reqs, InsertText(currentIndex, <<NL>>))
    ELSE LET child == children[k] IN
         IF IsText(child)
         THEN IF trim(child.text) # <<>>
              THEN mixedContentFrom(v, children, k + 1, currentIndex + Len(child.text),
                       Append(reqs, InsertText(currentIndex, child.text)))
              ELSE mixedContentFrom(v, children, k + 1, currentIndex, reqs)
         ELSE IF child.name = "IMG"
         THEN LET imageRequests == processImage(v, child, currentIndex)
              IN mixedContentFrom(v, children, k + 1, calculateNewIndex(imageRequests),
                     reqs \o imageRequests)
         ELSE IF hasInlineFormatting(v, child)
         THEN LET r == processChildNodes(v, child.kids)
              IN IF trim(r.text) # <<>>
                 THEN mixedContentFrom(v, children, k + 1, currentIndex + Len(r.text),
                          Append(reqs, InsertText(currentIndex, r.text))
                              \o formatRequests(r.ranges, currentIndex))
                 ELSE mixedContentFrom(v, children, k + 1, currentIndex, reqs)
         ELSE IF trim(textContent(child)) # <<>>
              THEN mixedContentFrom(v, children, k + 1,
                       currentIndex + Len(textContent(child)),
                       Append(reqs, InsertText(currentIndex, textContent(child))))
              ELSE mixedContentFrom(v, children, k + 1, currentIndex, reqs)

processMixedContent(v, element, insertIndex) ==
    mixedContentFrom(v, element.kids, 1, insertIndex, <<>>)

processParagraphWithInlineFormatting(v, element, insertIndex) ==
    IF descendants(element, {"IMG"}) # <<>>
    THEN processMixedContent(v, element, insertIndex)
    ELSE LET r == processChildNodes(v, element.kids)
         IN <<InsertText(insertIndex, r.text \o <<NL>>)>>
            \o formatRequests(r.ranges, insertIndex)

processParagraph(v, element, insertIndex) ==
    IF descendants(element, {"IMG"}) # <<>> \/ hasInlineFormatting(v, element)
    THEN processParagraphWithInlineFormatting(v, element, insertIndex)
    ELSE IF trim(textContent(element)) # <<>>
    THEN <<InsertText(insertIndex, textContent(element) \o <<NL>>)>>
    ELSE <<>>

(***************************************************************************)
(* Tables                                                                  *)
(***************************************************************************)
\* mutation: every row taken for the header row
cellDataAllHeader(v, cell, rowIndex) ==
    LET r == processChildNodes(v, cell.kids)
    IN IF hasInlineFormatting(v, cell)
       THEN [content |-> r.text, formatRanges |-> r.ranges,
             isHeader |-> (cell.name = "TH" \/ rowIndex >= 0)]
       ELSE [content |-> trim(textContent(cell)), formatRanges |-> <<>>,
             isHeader |-> (cell.name = "TH" \/ rowIndex >= 0)]

cellData(v, cell, rowIndex) ==
    LET r == processChildNodes(v, cell.kids)
    IN IF hasInlineFormatting(v, cell)
       THEN [content |-> r.text, formatRanges |-> r.ranges,
             isHeader |-> (cell.name = "TH" \/ rowIndex = 0)]
       ELSE [content |-> trim(textContent(cell)), formatRanges |-> <<>>,
             isHeader |-> (cell.name = "TH" \/ rowIndex = 0)]

\* tableData[r][c]; rowIndex is 0-based in the source
tableData(v, element) ==
    LET rows == descendants(element, {"TR"})
    IN [r \in 1..Len(rows) |->
           LET cells == descendants(rows[r], {"TH", "TD"})
           IN [c \in 1..Len(cells) |-> cellData(v, cells[c], r - 1)]]

cellRequests(cell, textPosition) ==
    IF cell.content # <<>>
    THEN <<InsertText(textPosition, cell.content)>>
         \o formatRequests(cell.formatRanges, textPosition)
         \o (IF cell.isHeader
             THEN <<UpdateTextStyle(textPosition, textPosition + Len(cell.content), "bold"),
                    UpdateParagraphStyle(textPosition, textPosition + Len(cell.content),
                                         "CENTER")>>
             ELSE <<>>)
    ELSE <<InsertText(textPosition, <<NL>>)>>

\* mutation: nothing added at the end of a row
RECURSIVE tableCellsNoRowStep(_, _, _, _, _)
tableCellsNoRowStep(data, rowIndex, colIndex, currentCellIndex, reqs) ==
    IF rowIndex > Len(data)
    THEN Append(reqs, InsertText(currentCellIndex, <<NL>>))
    ELSE IF colIndex > Len(data[rowIndex])
    THEN tableCellsNoRowStep(data, rowIndex + 1, 1, currentCellIndex, reqs)
    ELSE LET cell == data[rowIndex][colIndex]
         IN tableCellsNoRowStep(data, rowIndex, colIndex + 1,
                IF cell.content # <<>> THEN currentCellIndex + Len(cell.content) + 2
                ELSE currentCellIndex + 2,
                reqs \o cellRequests(cell, currentCellIndex + 1))

\* the two nested loops over tableData, from cell (rowIndex, colIndex) on
RECURSIVE tableCellsFrom(_, _, _, _, _)
tableCellsFrom(data, rowIndex, colIndex, currentCellIndex, reqs) ==
    IF rowIndex > Len(data)
    THEN Append(reqs, InsertText(currentCellIndex, <<NL>>))
    ELSE IF colIndex > Len(data[rowIndex])
    THEN tableCellsFrom(data, rowIndex + 1, 1, currentCellIndex + 1, reqs)
    ELSE LET cell == data[rowIndex][colIndex]
         IN tableCellsFrom(data, rowIndex, colIndex + 1,
                IF cell.content # <<>> THEN currentCellIndex + Len(cell.content) + 2
                ELSE currentCellIndex + 2,
                reqs \o cellRequests(cell, currentCellIndex + 1))

\* Array.prototype.join(', ') over the cell contents of one row
RECURSIVE joinCells(_, _)
joinCells(row, k) ==
    IF k > Len(row) THEN <<>>
    ELSE (IF k > 1 THEN <<",", " ">> ELSE <<>>) \o row[k] \o joinCells(row, k + 1)

\* the decimal digits of the row number i of `Row ${i}: `
digits(i) ==
    IF i < 10 THEN <<<<"0", "1", "2", "3", "4", "5", "6", "7", "8", "9">>[i + 1]>>
    ELSE <<"1">> \o <<<<"0", "1", "2", "3", "4", "5", "6", "7", "8", "9">>[(i % 10) + 1]>>

\* the data rows of the fallback text, from row i (0-based) on
RECURSIVE tableTextRows(_, _)
tableTextRows(contents, i) ==
    IF i >= Len(contents) THEN <<>>
    ELSE <<"R", "o", "w", " ">> \o digits(i) \o <<":", " ">>
         \o joinCells(contents[i + 1], 1) \o <<NL>> \o tableTextRows(contents, i + 1)

\* the text fallback of the catch block: contents[r][c] is a cell's content
processTableAsText(contents, insertIndex) ==
    LET tableText ==
            <<NL, "[", "T", "a", "b", "l", "e", " ", "C", "o", "n", "t", "e", "n", "t", "]", NL>>
            \o (IF Len(contents) > 0
                THEN <<"H", "e", "a", "d", "e", "r", "s", ":", " ">>
                     \o joinCells(contents[1], 1) \o <<NL>>
                     \o tableTextRows(contents, 1)
                ELSE <<>>)
            \o <<NL>>
    IN <<InsertText(insertIndex, tableText)>>

\* Nothing inside the try block can throw: every index the two loops read is
\* below the length of the array it reads from, whatever the row lengths are.
\* The catch that would call processTableAsText is never entered.
processTable(v, element, insertIndex) ==
    LET data == tableData(v, element)
    IN IF Len(data) = 0 \/ Len(data[1]) = 0 THEN <<>>
       ELSE tableCellsFrom(data, 1, 1, insertIndex + 3,
                <<InsertTable(insertIndex, Len(data), Len(data[1]))>>)

(***************************************************************************)
(* Blockquote, code block, horizontal rule, anything else                  *)
(***************************************************************************)
blockquoteSpacing(fullText, insertIndex) ==
    LET lines == splitLines(trim(fullText))
        firstLine == lines[1]
        lastLine == lines[Len(lines)]
    IN IF trim(firstLine) # <<>> /\ trim(lastLine) # <<>>
       THEN <<UpdateParagraphStyle(insertIndex, insertIndex + Len(firstLine),
                  "spaceAbove"),
              UpdateParagraphStyle(insertIndex + Len(fullText) - Len(lastLine) + 1,
                  insertIndex + Len(fullText) - 1, "spaceBelow")>>
       ELSE <<>>

processBlockquote(v, element, insertIndex) ==
    LET r == processChildNodes(v, element.kids)
        formatted == hasInlineFormatting(v, element)
        fullText == IF formatted THEN r.text \o <<NL>>
                    ELSE trim(textContent(element)) \o <<NL>>
    IN <<InsertText(insertIndex, fullText)>>
       \o (IF formatted THEN formatRequests(r.ranges, insertIndex) ELSE <<>>)
       \o <<UpdateParagraphStyle(insertIndex, insertIndex + Len(fullText) - 1,
                "blockquote")>>
       \o (IF v = "cheerio" THEN blockquoteSpacing(fullText, insertIndex) ELSE <<>>)

processCodeBlock(element, insertIndex) ==
    LET text == textContent(element)
    IN <<InsertText(insertIndex, text \o <<NL>>),
         UpdateTextStyle(insertIndex, insertIndex + Len(text), "code")>>

\* mutation: the rule drawn on the paragraph that is there, nothing inserted
processHorizontalRuleStyleOnly(insertIndex) ==
    LET hrText == <<NL>>
    IN <<UpdateParagraphStyle(insertIndex, insertIndex + Len(hrText), "borderBottom")>>

processHorizontalRule(insertIndex) ==
    LET hrText == <<NL>>
    IN <<InsertText(insertIndex, hrText),
         UpdateParagraphStyle(insertIndex, insertIndex + Len(hrText), "borderBottom"),
         InsertText(insertIndex + 1, hrText)>>

\* default branch of processHtmlElement, and its branch for text nodes
processOther(element, insertIndex) ==
    IF trim(textContent(element)) # <<>>
    THEN <<InsertText(insertIndex, trim(textContent(element)) \o <<NL>>)>>
    ELSE <<>>

(***************************************************************************)
(* The remote document (downstream consumer of batchUpdate)                *)
(*                                                                         *)
(* The document is the sequence of its characters, offsets from 1.  A      *)
(* table and an image occupy structural characters; createParagraphBullets *)
(* deletes the leading tabs of the paragraphs in its range.                *)
(***************************************************************************)
insertAt(doc, index, chars) ==
    SubSeq(doc, 1, index - 1) \o chars \o SubSeq(doc, index, Len(doc))

\* insertTable puts a newline before the table; every cell holds one empty
\* paragraph
tableChars(rows, columns) ==
    LET cell == <<"<cell>", NL>>
        row  == <<"<row>">> \o Flatten([c \in 1..columns |-> cell])
    IN <<NL, "<table>">> \o Flatten([r \in 1..rows |-> row]) \o <<"</table>">>

RECURSIVE isLeadingTab(_, _)
isLeadingTab(doc, p) ==
    /\ doc[p] = TAB
    /\ \/ p = 1
       \/ doc[p - 1] = NL
       \/ isLeadingTab(doc, p - 1)

\* the document without the leading tabs of [startIndex, endIndex)
removeLeadingTabs(doc, startIndex, endIndex) ==
    LET numbered == [p \in 1..Len(doc) |-> <<p, doc[p]>>]
        kept == SelectSeq(numbered,
                    LAMBDA e : ~(e[1] >= startIndex /\ e[1] < endIndex
                                 /\ isLeadingTab(doc, e[1])))
    IN [i \in 1..Len(kept) |-> kept[i][2]]

\* an offset a request names exists in the document as it stands
validAt(doc, req) ==
    IF req.op \in LocationOps
    THEN req.index >= 1 /\ req.index <= Len(doc)
    ELSE /\ req.startIndex >= 1 /\ req.startIndex <= Len(doc) + 1
         /\ req.endIndex >= 1 /\ req.endIndex <= Len(doc) + 1

applyRequest(doc, req) ==
    CASE req.op = "insertText" -> insertAt(doc, req.index, req.text)
      [] req.op = "insertTable" ->
             insertAt(doc, req.index, tableChars(req.rows, req.columns))
      [] req.op = "insertInlineImage" -> insertAt(doc, req.index, <<"<img>">>)
      [] req.op = "insertPageBreak" -> insertAt(doc, req.index, <<"<break>", NL>>)
      [] req.op = "createParagraphBullets" ->
             removeLeadingTabs(doc, req.startIndex, req.endIndex)
      [] OTHER -> doc

\* apply reqs[k..] in array order; stop at the first request whose offsets
\* do not exist (bad = its position in the array, 0 when all were applied)
RECURSIVE applyFrom(_, _, _)
applyFrom(doc, reqs, k) ==
    IF k > Len(reqs) THEN [doc |-> doc, bad |-> 0]
    ELSE IF ~validAt(doc, reqs[k]) THEN [doc |-> doc, bad |-> k]
    ELSE applyFrom(applyRequest(doc, reqs[k]), reqs, k + 1)

\* the document a conversion with start index s writes into: s - 1 characters
\* of earlier content and the closing newline
RECURSIVE initialDocument(_)
initialDocument(s) == IF s <= 1 THEN <<NL>> ELSE <<"x">> \o initialDocument(s - 1)

(***************************************************************************)
(* processHtmlElement and the loop of convertMarkdownToApiRequests as one  *)
(* function of the node list                                               *)
(***************************************************************************)
processHtmlElement(v, element, insertIndex) ==
    IF IsText(element) /\ trim(textContent(element)) = <<>> THEN <<>>
    ELSE CASE element.name \in {"H1", "H2", "H3", "H4", "H5", "H6"} ->
                  processHeading(element, insertIndex)
           [] element.name = "P" -> processParagraph(v, element, insertIndex)
           [] element.name = "UL" -> processUnorderedList(v, element, insertIndex)
           [] element.name = "OL" -> processOrderedList(v, element, insertIndex)
           [] element.name = "TABLE" -> processTable(v, element, insertIndex)
           [] element.name = "BLOCKQUOTE" -> processBlockquote(v, element, insertIndex)
           [] element.name = "PRE" -> processCodeBlock(element, insertIndex)
           [] element.name = "HR" -> processHorizontalRule(insertIndex)
           [] element.name = "IMG" -> processImage(v, element, insertIndex)
           [] OTHER -> processOther(element, insertIndex)

\* the loop from node k on
RECURSIVE convertFrom(_, _, _, _, _)
convertFrom(v, nodes, k, insertIndex, reqs) ==
    IF k > Len(nodes) THEN reqs
    ELSE LET elementRequests == processHtmlElement(v, nodes[k], insertIndex)
         IN convertFrom(v, nodes, k + 1,
                IF Len(elementRequests) > 0 THEN calculateNewIndex(elementRequests)
                ELSE insertIndex,
                reqs \o elementRequests)

(***************************************************************************)
(* Page breaks (version 0.5.0): the strategy argument of the conversion    *)
(***************************************************************************)
PageBreakStrategies == {"none", "h1", "h2"}

\* a page break goes before every H1 but the first, or before every H2
needsPageBreak(strategy, element, h1Seen) ==
    \/ strategy = "h1" /\ element.name = "H1" /\ h1Seen
    \/ strategy = "h2" /\ element.name = "H2"

\* mutation: the heading left where it would be without the break
processHeadingBreakInPlace(strategy, element, insertIndex, h1Seen) ==
    IF needsPageBreak(strategy, element, h1Seen)
    THEN <<InsertPageBreak(insertIndex)>> \o processHeading(element, insertIndex)
    ELSE processHeading(element, insertIndex)

\* the break takes two positions (the break and its newline); the heading
\* follows it
processHeadingWithPageBreak(strategy, element, insertIndex, h1Seen) ==
    IF needsPageBreak(strategy, element, h1Seen)
    THEN <<InsertPageBreak(insertIndex)>> \o processHeading(element, insertIndex + 2)
    ELSE processHeading(element, insertIndex)

(***************************************************************************)
(* The value convertMarkdownToApiRequests returns                          *)
(***************************************************************************)
OutputFormats == {"single", "multiple"}

\* mutation: requestId taken as the array index itself
numberedRequestsFromZero(reqs) ==
    [k \in 1..Len(reqs) |-> [requestId |-> k - 1, request |-> reqs[k]]]

\* requests.map((req, index) => ({requestId: index + 1, request: req})):
\* position k of a sequence is array index k - 1
numberedRequests(reqs) ==
    [k \in 1..Len(reqs) |-> [requestId |-> (k - 1) + 1, request |-> reqs[k]]]

\* documentTitle and createDocumentRequest repeat the title argument and are
\* left out
conversionResult(format, reqs) ==
    IF format = "single"
    THEN [batchUpdateRequest |-> [requests |-> reqs]]
    ELSE [batchUpdateRequest |-> [requests |-> reqs],
          requests |-> numberedRequests(reqs)]

(***************************************************************************)
(* Inputs: the top-level nodes the Markdown parser produces                *)
(***************************************************************************)
MaxBlocks == 2

StartIndexes == {1, 3}

GoodUrl == [scheme |-> "https:", len |-> 12, ext |-> TRUE, service |-> FALSE,
            parses |-> TRUE]
BadUrl  == [scheme |-> "https:", len |-> 8, ext |-> FALSE, service |-> FALSE,
            parses |-> TRUE]

\* # Ti
HeadingBlock == El("H1", <<Txt(<<"T", "i">>)>>)
\* ##            (an empty heading)
EmptyHeadingBlock == El("H2", <<>>)
\* ab
PlainParagraph == El("P", <<Txt(<<"a", "b">>)>>)
\* **bold** and *italic*
BoldItalicParagraph ==
    El("P", <<El("STRONG", <<Txt(<<"b", "o", "l", "d">>)>>), Txt(<<" ", "a", "n", "d", " ">>),
              El("EM", <<Txt(<<"i", "t", "a", "l", "i", "c">>)>>)>>)
\* **a*b***<b></b>[c](u)<a>d</a>
NestedParagraph ==
    El("P", <<El("STRONG", <<Txt(<<"a">>), El("EM", <<Txt(<<"b">>)>>)>>),
              El("B", <<>>), Link(<<Txt(<<"c">>)>>, "u"), Link(<<Txt(<<"d">>)>>, "")>>)
\* a![x](https://...png)**b**
ImageParagraph ==
    El("P", <<Txt(<<"a">>), Img(GoodUrl, <<"x">>), El("STRONG", <<Txt(<<"b">>)>>)>>)
\* ![](https://...)   (no image extension, no image host)
BadImageParagraph == El("P", <<Img(BadUrl, <<>>)>>)
\* - A
\*   - **B**
\* - **C**
NestedList ==
    El("UL", <<Txt(<<NL>>),
               El("LI", <<Txt(<<"A">>),
                          El("UL", <<Txt(<<NL>>),
                                     El("LI", <<El("STRONG", <<Txt(<<"B">>)>>)>>),
                                     Txt(<<NL>>)>>),
                          Txt(<<NL>>)>>),
               Txt(<<NL>>),
               El("LI", <<El("STRONG", <<Txt(<<"C">>)>>)>>),
               Txt(<<NL>>)>>)
\* - [x] **done**
\* - [ ] x
CheckboxList ==
    El("UL", <<Txt(<<NL>>),
               El("LI", <<Checkbox(TRUE), Txt(<<SP>>), El("STRONG", <<Txt(<<"d", "o", "n", "e">>)>>)>>),
               Txt(<<NL>>),
               El("LI", <<Checkbox(FALSE), Txt(<<SP, "x">>)>>),
               Txt(<<NL>>)>>)
\* 1. a<br>*b*
\*    1. c<br>d
\* 2.
LinesList ==
    El("OL", <<Txt(<<NL>>),
               El("LI", <<Txt(<<"a">>), El("BR", <<>>), El("EM", <<Txt(<<"b">>)>>),
                          El("OL", <<Txt(<<NL>>),
                                     El("LI", <<Txt(<<"c">>), El("BR", <<>>),
                                                Txt(<<"d">>)>>),
                                     Txt(<<NL>>)>>),
                          Txt(<<NL>>)>>),
               Txt(<<NL>>),
               El("LI", <<>>),
               Txt(<<NL>>)>>)
\* | h | i |
\* |---|---|
\* | c | d |
PlainTable ==
    El("TABLE", <<El("THEAD", <<El("TR", <<El("TH", <<Txt(<<"h">>)>>),
                                           El("TH", <<Txt(<<"i">>)>>)>>)>>),
                  El("TBODY", <<El("TR", <<El("TD", <<Txt(<<"c">>)>>),
                                           El("TD", <<Txt(<<"d">>)>>)>>)>>)>>)
\* a raw HTML table: an empty header cell, a body cell in bold, an empty body
\* cell and a <th> in the body row
\* | h |       |   |
\* | **c** |   | r |
SparseTable ==
    El("TABLE", <<El("TR", <<El("TH", <<Txt(<<"h">>)>>), El("TH", <<>>),
                             El("TH", <<>>)>>),
                  El("TR", <<El("TD", <<El("STRONG", <<Txt(<<"c">>)>>)>>),
                             El("TD", <<>>), El("TH", <<Txt(<<"r">>)>>)>>)>>)
\* - x
\*   - c<br>d
\*     - **g**
\*   - **f**
\* - **e**
DeepList ==
    El("UL", <<Txt(<<NL>>),
       El("LI", <<Txt(<<"x">>),
          El("UL", <<Txt(<<NL>>),
             El("LI", <<Txt(<<"c">>), El("BR", <<>>), Txt(<<"d">>),
                El("UL", <<Txt(<<NL>>),
                           El("LI", <<El("STRONG", <<Txt(<<"g">>)>>)>>),
                           Txt(<<NL>>)>>),
                Txt(<<NL>>)>>),
             Txt(<<NL>>),
             El("LI", <<El("STRONG", <<Txt(<<"f">>)>>)>>),
             Txt(<<NL>>)>>),
          Txt(<<NL>>)>>),
       Txt(<<NL>>),
       El("LI", <<El("STRONG", <<Txt(<<"e">>)>>)>>),
       Txt(<<NL>>)>>)
\* items that start with a line break, and an item with an empty middle line
\* - <br>y
\* - z<br><br>w
BreakFirstList ==
    El("UL", <<Txt(<<NL>>),
               El("LI", <<El("BR", <<>>), Txt(<<"y">>)>>),
               Txt(<<NL>>),
               El("LI", <<Txt(<<"z">>), El("BR", <<>>), El("BR", <<>>), Txt(<<"w">>)>>),
               Txt(<<NL>>)>>)
\* raw HTML tables whose rows differ in their number of cells
\* <tr><th>h</th><th>i</th></tr><tr><td>c</td></tr>
RaggedShortTable ==
    El("TABLE", <<El("TR", <<El("TH", <<Txt(<<"h">>)>>), El("TH", <<Txt(<<"i">>)>>)>>),
                  El("TR", <<El("TD", <<Txt(<<"c">>)>>)>>)>>)
\* <tr><th>h</th></tr><tr><td>c</td><td>d</td></tr>
RaggedLongTable ==
    El("TABLE", <<El("TR", <<El("TH", <<Txt(<<"h">>)>>)>>),
                  El("TR", <<El("TD", <<Txt(<<"c">>)>>), El("TD", <<Txt(<<"d">>)>>)>>)>>)
\* image sources: what isValidImageUrl and the length test look at
\* <img alt="x">   (no src)
NoSrcImage == Img(NoUrl, <<"x">>)
\* https://host/page   (no image extension, no image host)
PlainUrlImage == Img(BadUrl, <<"x">>)
\* ftp://host/a.png
FtpImage == Img([scheme |-> "ftp:", len |-> 16, ext |-> TRUE, service |-> FALSE,
                 parses |-> TRUE], <<>>)
\* data:image/png;base64,...   (parses; the path ends in no image extension)
DataImage == Img([scheme |-> "data:", len |-> 30, ext |-> FALSE, service |-> FALSE,
                  parses |-> TRUE], <<>>)
\* a.png   (a relative path: new URL throws)
RelativeImage == Img([scheme |-> "", len |-> 5, ext |-> TRUE, service |-> FALSE,
                      parses |-> FALSE], <<"x">>)
\* https://exa mple.com/a.png   (new URL throws on the host)
MalformedImage == Img([scheme |-> "https:", len |-> 28, ext |-> TRUE, service |-> FALSE,
                       parses |-> FALSE], <<>>)
\* https://i.imgur.com/abc   (an image host, no extension)
ServiceImage == Img([scheme |-> "https:", len |-> 23, ext |-> FALSE, service |-> TRUE,
                     parses |-> TRUE], <<>>)
\* http://host/a.png
HttpImage == Img([scheme |-> "http:", len |-> 17, ext |-> TRUE, service |-> FALSE,
                  parses |-> TRUE], <<>>)
\* https://host/<padding>.png of 1999, 2000 and 2001 characters
Long1999Image == Img([GoodUrl EXCEPT !.len = 1999], <<>>)
Long2000Image == Img([GoodUrl EXCEPT !.len = 2000], <<>>)
Long2001Image == Img([GoodUrl EXCEPT !.len = 2001], <<>>)
\* two images without a usable source in one paragraph
BadImagesParagraph == El("P", <<Img(BadUrl, <<>>), Img(NoUrl, <<"x">>)>>)
\* ![x](https://...png)*i***a*b***
MixedParagraph ==
    El("P", <<Img(GoodUrl, <<"x">>), El("EM", <<Txt(<<"i">>)>>),
              El("STRONG", <<Txt(<<"a">>), El("EM", <<Txt(<<"b">>)>>)>>)>>)
\* ### c
H3Block == El("H3", <<Txt(<<"c">>)>>)
\* #### **d**e
H4Block == El("H4", <<El("STRONG", <<Txt(<<"d">>)>>), Txt(<<"e">>)>>)
\* ##### f g
H5Block == El("H5", <<Txt(<<"f", " ", "g">>)>>)
\* ###### h
H6Block == El("H6", <<Txt(<<"h">>)>>)
\* ## S
SubHeadingBlock == El("H2", <<Txt(<<"S">>)>>)
\* > a
ShortQuote ==
    El("BLOCKQUOTE", <<Txt(<<NL>>), El("P", <<Txt(<<"a">>)>>), Txt(<<NL>>)>>)
\* > a
\* > *bc*
LongQuote ==
    El("BLOCKQUOTE", <<Txt(<<NL>>),
                       El("P", <<Txt(<<"a", NL>>), El("EM", <<Txt(<<"b", "c">>)>>)>>),
                       Txt(<<NL>>)>>)
\* ```
\* x
\* ```
CodeBlock == El("PRE", <<El("CODE", <<Txt(<<"x", NL>>)>>)>>)
\* an empty fenced block
EmptyCodeBlock == El("PRE", <<El("CODE", <<>>)>>)
\* ---
RuleBlock == El("HR", <<>>)
\* <img src="https://...png"> on a line of its own
ImageBlock == Img(GoodUrl, <<>>)
\* <div>z</div>
DivBlock == El("DIV", <<Txt(<<"z">>)>>)
\* the newline between two blocks
Whitespace == Txt(<<NL>>)

Blocks ==
    {HeadingBlock, EmptyHeadingBlock, PlainParagraph, BoldItalicParagraph,
     NestedParagraph, ImageParagraph, BadImageParagraph, NestedList, CheckboxList,
     LinesList, PlainTable, SparseTable, ShortQuote, LongQuote, CodeBlock,
     EmptyCodeBlock, RuleBlock, ImageBlock, DivBlock, Whitespace}

Bodies == UNION {[1..n -> Blocks] : n \in 1..MaxBlocks}

\* inputs of the second specification: one of the blocks below, alone, before
\* or after one block of Blocks
CaseBlocks ==
    {H3Block, H4Block, H5Block, H6Block, DeepList, BreakFirstList, MixedParagraph,
     RaggedShortTable, RaggedLongTable,
     NoSrcImage, PlainUrlImage, FtpImage, DataImage, RelativeImage, MalformedImage,
     ServiceImage,
     HttpImage, Long1999Image, Long2000Image, Long2001Image, BadImagesParagraph}

CaseBodies ==
    {<<c>> : c \in CaseBlocks}
    \cup {<<c, b>> : c \in CaseBlocks, b \in Blocks}
    \cup {<<b, c>> : b \in Blocks, c \in CaseBlocks}

\* jsdom walks document.body.childNodes; cheerio walks $('body').children(),
\* which holds no text nodes
bodyNodes(v, body) ==
    IF v = "cheerio" THEN SelectSeq(body, LAMBDA n : ~IsText(n)) ELSE body

(***************************************************************************)
(* convertMarkdownToApiRequests as a state machine: one step per top-level *)
(* node, then the batch is applied to the document                         *)
(***************************************************************************)
VARIABLES
    version,        \* generation of MarkdownProcessor that runs
    startIndex,     \* initialInsertIndex
    elements,       \* the nodes the loop iterates
    pos,            \* position of the next node in elements
    insertIndex,    \* the insertion cursor
    requests,       \* the accumulated request list
    lastRequests,   \* elementRequests of the node processed last
    prevIndex,      \* insertIndex before that node
    pc,             \* "convert" | "returned" | "done"
    pageBreakStrategy, \* the pageBreakStrategy argument, "none" where the
                    \* conversion takes none
    outputFormat,   \* the outputFormat argument, "" until the loop is over
    result,         \* the ConversionResult returned, <<>> until then
    doc,            \* the remote document
    bad             \* position in requests of the first request the document
                    \* could not take, 0 if none

\* MarkdownToGoogleDocs.execute
VARIABLES
    items,          \* the array getInputData() returned, which the loop iterates
    itemIndex,      \* the loop counter, 0-based
    returnData,     \* the output entries pushed so far
    continueOnFail, \* what this.continueOnFail() answers
    inputCount,     \* the number of items the node was handed
    xpc             \* "idle" | "loop" | "returned" | "thrown"

executeVars == <<items, itemIndex, returnData, continueOnFail, inputCount, xpc>>

\* GoogleDocsAPI.createGoogleDocsDocumentWithAPI
VARIABLES
    templateDocumentId,     \* the argument: TRUE when a template is given
    template,               \* the body of the template document
    placeholderData,        \* the argument: <<key, value>> pairs in key order
    mainContentPlaceholder, \* the argument: [defined, text]
    markdownInput,          \* the argument: [blank, body]
    folderName,             \* the argument: TRUE when a folder name is given
    remote,                 \* the body of the document on the server
    docResponse,            \* `doc`, the answer to documents.get, <<>> before
    markdownInsertIndex,    \* where the Markdown conversion starts
    contentRequests,        \* the batch prepared in step 3
    calls,                  \* the requests sent so far
    apc                     \* "idle" | "start" | "copied" | "replaced" |
                            \* "prepared" | "folder" | "markdown" | "done" |
                            \* "failed"

apiVars == <<templateDocumentId, template, placeholderData, mainContentPlaceholder,
             markdownInput, folderName, remote, docResponse, markdownInsertIndex,
             contentRequests, calls, apc>>

vars == <<version, startIndex, elements, pos, insertIndex, requests, lastRequests,
          prevIndex, pc, pageBreakStrategy, outputFormat, result, doc, bad,
          executeVars, apiVars>>

\* createGoogleDocsDocumentWithAPI is not running
ApiIdle ==
    /\ templateDocumentId = FALSE
    /\ template = <<>>
    /\ placeholderData = <<>>
    /\ mainContentPlaceholder = [defined |-> FALSE, text |-> <<>>]
    /\ markdownInput = [blank |-> TRUE, body |-> <<>>]
    /\ folderName = TRUE
    /\ remote = <<>>
    /\ docResponse = <<>>
    /\ markdownInsertIndex = 1
    /\ contentRequests = <<>>
    /\ calls = <<>>
    /\ apc = "idle"

\* execute is not running
ExecuteIdle ==
    /\ items = <<>>
    /\ itemIndex = 0
    /\ returnData = <<>>
    /\ continueOnFail = FALSE
    /\ inputCount = 0
    /\ xpc = "idle"

\* the jsdom generation takes no start index: insertIndex starts at 1
Init ==
    /\ version \in Versions
    /\ startIndex \in (IF version = "jsdom" THEN {1} ELSE StartIndexes)
    /\ \E body \in Bodies : elements = bodyNodes(version, body)
    /\ pos = 1
    /\ insertIndex = startIndex
    /\ requests = <<>>
    /\ lastRequests = <<>>
    /\ prevIndex = startIndex
    /\ pc = "convert"
    /\ pageBreakStrategy = "none"
    /\ outputFormat = ""
    /\ result = <<>>
    /\ doc = initialDocument(startIndex)
    /\ bad = 0
    /\ ExecuteIdle
    /\ ApiIdle

\* the same conversion started on the inputs of CaseBodies
CaseInit ==
    /\ version \in Versions
    /\ startIndex \in (IF version = "jsdom" THEN {1} ELSE StartIndexes)
    /\ \E body \in CaseBodies : elements = bodyNodes(version, body)
    /\ pos = 1
    /\ insertIndex = startIndex
    /\ requests = <<>>
    /\ lastRequests = <<>>
    /\ prevIndex = startIndex
    /\ pc = "convert"
    /\ pageBreakStrategy = "none"
    /\ outputFormat = ""
    /\ result = <<>>
    /\ doc = initialDocument(startIndex)
    /\ bad = 0
    /\ ExecuteIdle
    /\ ApiIdle

\* the conversion of 0.5.0: a page-break strategy, headings first
PageBreakBodies ==
    {<<a, b, c>> : a \in {HeadingBlock, SubHeadingBlock, PlainParagraph},
                   b \in {HeadingBlock, SubHeadingBlock, PlainParagraph},
                   c \in Blocks \cup {SubHeadingBlock}}

PageBreakInit ==
    /\ version \in Versions
    /\ startIndex \in (IF version = "jsdom" THEN {1} ELSE StartIndexes)
    /\ \E body \in PageBreakBodies : elements = bodyNodes(version, body)
    /\ pos = 1
    /\ insertIndex = startIndex
    /\ requests = <<>>
    /\ lastRequests = <<>>
    /\ prevIndex = startIndex
    /\ pc = "convert"
    /\ pageBreakStrategy \in PageBreakStrategies
    /\ outputFormat = ""
    /\ result = <<>>
    /\ doc = initialDocument(startIndex)
    /\ bad = 0
    /\ ExecuteIdle
    /\ ApiIdle

Current == elements[pos]

\* an H1 came before the current node
h1Seen == \E k \in 1..(pos - 1) : elements[k].name = "H1"

AtNode(names) == pc = "convert" /\ pos <= Len(elements) /\ Current.name \in names

\* the body of the loop: push the node's requests and move the cursor
Emit(elementRequests) ==
    /\ requests' = requests \o elementRequests
    /\ insertIndex' = IF Len(elementRequests) > 0
                      THEN calculateNewIndex(elementRequests)
                      ELSE insertIndex
    /\ lastRequests' = elementRequests
    /\ prevIndex' = insertIndex
    /\ pos' = pos + 1
    /\ UNCHANGED <<version, startIndex, elements, pc, pageBreakStrategy, outputFormat,
                   result, doc, bad>>
    /\ UNCHANGED <<executeVars, apiVars>>

HeadingNames == {"H1", "H2", "H3", "H4", "H5", "H6"}
HandledNames == HeadingNames \cup {"P", "UL", "OL", "TABLE", "BLOCKQUOTE", "PRE", "HR", "IMG"}

ProcessHeading ==
    /\ AtNode(HeadingNames)
    /\ Emit(processHeadingWithPageBreak(pageBreakStrategy, Current, insertIndex, h1Seen))

ProcessParagraph ==
    AtNode({"P"}) /\ Emit(processParagraph(version, Current, insertIndex))

ProcessUnorderedList ==
    AtNode({"UL"}) /\ Emit(processUnorderedList(version, Current, insertIndex))

ProcessOrderedList ==
    AtNode({"OL"}) /\ Emit(processOrderedList(version, Current, insertIndex))

ProcessTable ==
    AtNode({"TABLE"}) /\ Emit(processTable(version, Current, insertIndex))

ProcessBlockquote ==
    AtNode({"BLOCKQUOTE"}) /\ Emit(processBlockquote(version, Current, insertIndex))

ProcessCodeBlock ==
    AtNode({"PRE"}) /\ Emit(processCodeBlock(Current, insertIndex))

ProcessHorizontalRule ==
    AtNode({"HR"}) /\ Emit(processHorizontalRule(insertIndex))

ProcessImage ==
    AtNode({"IMG"}) /\ Emit(processImage(version, Current, insertIndex))

\* text nodes and elements processHtmlElement has no case for
ProcessOther ==
    /\ pc = "convert" /\ pos <= Len(elements) /\ Current.name \notin HandledNames
    /\ Emit(processOther(Current, insertIndex))

\* the loop is over: the result is packaged as outputFormat asks
Return ==
    /\ pc = "convert" /\ pos > Len(elements)
    /\ \E format \in OutputFormats :
           /\ outputFormat' = format
           /\ result' = conversionResult(format, requests)
    /\ pc' = "returned"
    /\ UNCHANGED <<version, startIndex, elements, pos, insertIndex, requests,
                   lastRequests, prevIndex, pageBreakStrategy, doc, bad>>
    /\ UNCHANGED <<executeVars, apiVars>>

\* the consumer applies batchUpdateRequest.requests in order
BatchUpdate ==
    /\ pc = "returned"
    /\ LET r == applyFrom(doc, result.batchUpdateRequest.requests, 1)
       IN doc' = r.doc /\ bad' = r.bad
    /\ pc' = "done"
    /\ UNCHANGED <<version, startIndex, elements, pos, insertIndex, requests,
                   lastRequests, prevIndex, pageBreakStrategy, outputFormat, result>>
    /\ UNCHANGED <<executeVars, apiVars>>

Next ==
    \/ ProcessHeading
    \/ ProcessParagraph
    \/ ProcessUnorderedList
    \/ ProcessOrderedList
    \/ ProcessTable
    \/ ProcessBlockquote
    \/ ProcessCodeBlock
    \/ ProcessHorizontalRule
    \/ ProcessImage
    \/ ProcessOther
    \/ Return
    \/ BatchUpdate

Spec == Init /\ [][Next]_vars

CaseSpec == CaseInit /\ [][Next]_vars

PageBreakSpec == PageBreakInit /\ [][Next]_vars

(***************************************************************************)
(* MarkdownToGoogleDocs.execute: the loop over the input items             *)
(***************************************************************************)
MaxInputs == 2
MaxItems == 4

\* the parameters getNodeParameter resolves for one item, as far as they
\* decide whether the item's operation returns or throws
Parameters(operation, markdown, data, requestFails) ==
    [operation |-> operation,
     markdownInput |-> markdown,          \* "text" | "" (blank)
     placeholderData |-> data,            \* "json" | "invalid"
     requestFails |-> requestFails]       \* a request to the Google API fails

ItemParameters ==
    {Parameters("convertToApiRequests", "text", "json", FALSE),
     Parameters("createDocument", "text", "json", FALSE),
     Parameters("createDocument", "", "json", FALSE),
     Parameters("createDocument", "text", "invalid", FALSE),
     Parameters("createDocument", "text", "json", TRUE),
     Parameters("testCredentials", "", "json", TRUE),
     Parameters("deleteDocument", "text", "json", FALSE)}

\* the body of the try block throws: 'Markdown input is required', 'Invalid
\* JSON in Placeholder Data', an error of createGoogleDocsDocumentWithAPI,
\* 'Unknown operation'; testCredentials catches what its requests throw
operationThrows(parameters) ==
    CASE parameters.operation = "convertToApiRequests" -> FALSE
      [] parameters.operation = "createDocument" ->
             \/ parameters.markdownInput = ""
             \/ parameters.placeholderData = "invalid"
             \/ parameters.requestFails
      [] parameters.operation = "testCredentials" -> FALSE
      [] OTHER -> TRUE

Item(json, parameters, error) ==
    [json |-> json, parameters |-> parameters, error |-> error]

\* the input lists of n items
InputItems(n) ==
    {[i \in 1..n |-> Item(i, f[i], FALSE)] : f \in [1..n -> ItemParameters]}

ExecuteInit ==
    /\ version = "jsdom"
    /\ startIndex = 1
    /\ elements = <<>>
    /\ pos = 1
    /\ insertIndex = 1
    /\ requests = <<>>
    /\ lastRequests = <<>>
    /\ prevIndex = 1
    /\ pc = "idle"
    /\ pageBreakStrategy = "none"
    /\ outputFormat = ""
    /\ result = <<>>
    /\ doc = <<>>
    /\ bad = 0
    /\ \E n \in 0..MaxInputs :
           /\ inputCount = n
           /\ items \in InputItems(n)
    /\ itemIndex = 0
    /\ returnData = <<>>
    /\ continueOnFail \in BOOLEAN
    /\ xpc = "loop"
    /\ ApiIdle

converterVars ==
    <<version, startIndex, elements, pos, insertIndex, requests, lastRequests,
      prevIndex, pc, pageBreakStrategy, outputFormat, result, doc, bad>>

InLoop == xpc = "loop" /\ itemIndex < Len(items)

CurrentItem == items[itemIndex + 1]

\* the try block runs to its end: returnData.push
ExecuteItem ==
    /\ InLoop
    /\ ~operationThrows(CurrentItem.parameters)
    /\ returnData' = Append(returnData, [pairedItem |-> itemIndex])
    /\ itemIndex' = itemIndex + 1
    /\ UNCHANGED <<items, continueOnFail, inputCount, xpc, converterVars, apiVars>>

\* catch, continueOnFail: items.push of the json of getInputData(itemIndex)[0].
\* getInputData takes the index of an input, not of an item: for itemIndex 0
\* it answers the list `items` itself; what it answers for an input the node
\* does not have is the host's, either a list (this action) or none
\* (CatchWithoutInput).  The parameters the host resolves for the item
\* pushed, an item index beyond the input, are the host's as well.
CatchContinue ==
    /\ InLoop
    /\ operationThrows(CurrentItem.parameters)
    /\ continueOnFail
    /\ Len(items) < MaxItems
    /\ \E parameters \in ItemParameters :
           items' = Append(items, Item(items[1].json, parameters, TRUE))
    /\ itemIndex' = itemIndex + 1
    /\ UNCHANGED <<returnData, continueOnFail, inputCount, xpc, converterVars, apiVars>>

\* catch, continueOnFail, no input of that index: reading [0].json throws
\* out of the catch block
CatchWithoutInput ==
    /\ InLoop
    /\ operationThrows(CurrentItem.parameters)
    /\ continueOnFail
    /\ itemIndex >= 1
    /\ xpc' = "thrown"
    /\ UNCHANGED <<items, itemIndex, returnData, continueOnFail, inputCount,
                   converterVars, apiVars>>

\* catch, no continueOnFail: the error is thrown on
CatchRethrow ==
    /\ InLoop
    /\ operationThrows(CurrentItem.parameters)
    /\ ~continueOnFail
    /\ xpc' = "thrown"
    /\ UNCHANGED <<items, itemIndex, returnData, continueOnFail, inputCount,
                   converterVars, apiVars>>

\* itemIndex < items.length fails: return [returnData]
ExecuteReturn ==
    /\ xpc = "loop"
    /\ itemIndex >= Len(items)
    /\ xpc' = "returned"
    /\ UNCHANGED <<items, itemIndex, returnData, continueOnFail, inputCount,
                   converterVars, apiVars>>

ExecuteNext ==
    \/ ExecuteItem
    \/ CatchContinue
    \/ CatchWithoutInput
    \/ CatchRethrow
    \/ ExecuteReturn

ExecuteSpec == ExecuteInit /\ [][ExecuteNext]_vars

(***************************************************************************)
(* GoogleDocsAPI.createGoogleDocsDocumentWithAPI: the requests it sends    *)
(***************************************************************************)
\* String.prototype.indexOf: the 0-based place of the first occurrence, -1
\* if there is none
occursAt(s, p, i) == i + Len(p) - 1 <= Len(s) /\ SubSeq(s, i, i + Len(p) - 1) = p

indexOf(s, p) ==
    IF \E i \in 1..(Len(s) + 1) : occursAt(s, p, i)
    THEN (CHOOSE i \in 1..(Len(s) + 1) :
              occursAt(s, p, i) /\ \A j \in 1..(i - 1) : ~occursAt(s, p, j)) - 1
    ELSE 0 - 1

includes(s, p) == indexOf(s, p) >= 0

\* `{{${key}}}`
braces(key) == <<"{", "{">> \o key \o <<"}", "}">>

ReplaceAllText(text, replaceText) ==
    [op |-> "replaceAllText", containsText |-> text, matchCase |-> FALSE,
     replaceText |-> replaceText]

DeleteContentRange(s, e) ==
    [NoReq EXCEPT !.op = "deleteContentRange", !.startIndex = s, !.endIndex = e]

Call(method, url, body) == [method |-> method, url |-> url, requests |-> body]

\* the document body as the server holds it: its runs in order, each a text
\* run or not, in a paragraph or in another structural element
TextRun(content) == [textRun |-> TRUE, paragraph |-> TRUE, content |-> content]
InlineObject == [textRun |-> FALSE, paragraph |-> TRUE, content |-> <<"<obj>">>]
CellRun(content) == [textRun |-> TRUE, paragraph |-> FALSE, content |-> content]

\* documents.get, fields=body.content: the runs with their start offsets;
\* the body starts at offset 1
bodyContent(runs) ==
    [k \in 1..Len(runs) |->
        [textRun |-> runs[k].textRun, paragraph |-> runs[k].paragraph,
         content |-> runs[k].content,
         startIndex |-> 1 + SumSeq([j \in 1..(k - 1) |-> Len(runs[j].content)])]]

\* the endIndex of the last structural element
bodyEndIndex(runs) == 1 + SumSeq([j \in 1..Len(runs) |-> Len(runs[j].content)])

lower(c) == IF c = "M" THEN "m" ELSE IF c = "T" THEN "t" ELSE c

lowerCase(s) == [i \in 1..Len(s) |-> lower(s[i])]

\* replaceAllText with matchCase false, within one run
RECURSIVE replaceFrom(_, _, _, _)
replaceFrom(s, p, v, i) ==
    IF i > Len(s) THEN <<>>
    ELSE IF occursAt(lowerCase(s), lowerCase(p), i)
    THEN v \o replaceFrom(s, p, v, i + Len(p))
    ELSE <<s[i]>> \o replaceFrom(s, p, v, i + 1)

replaceInRuns(runs, request) ==
    [k \in 1..Len(runs) |->
        IF runs[k].textRun
        THEN [runs[k] EXCEPT !.content =
                  replaceFrom(@, request.containsText, request.replaceText, 1)]
        ELSE runs[k]]

RECURSIVE replaceAllFrom(_, _, _)
replaceAllFrom(runs, batch, k) ==
    IF k > Len(batch) THEN runs
    ELSE replaceAllFrom(replaceInRuns(runs, batch[k]), batch, k + 1)

\* deleteContentRange on the server: the characters of [s, e) removed
deleteInRuns(runs, s, e) ==
    [k \in 1..Len(runs) |->
        [runs[k] EXCEPT !.content =
            SelectSeq([i \in 1..Len(runs[k].content) |->
                          [c |-> runs[k].content[i],
                           at |-> bodyContent(runs)[k].startIndex + i - 1]],
                      LAMBDA x : x.at < s \/ x.at >= e)]]

charsOf(numbered) == [i \in 1..Len(numbered) |-> numbered[i].c]

deleteContent(runs, batch) ==
    IF batch = <<>> THEN runs
    ELSE [k \in 1..Len(runs) |->
             [runs[k] EXCEPT !.content =
                 charsOf(deleteInRuns(runs, batch[1].startIndex,
                                      batch[1].endIndex)[k].content)]]

\* mutation: the key of the main-content placeholder replaced as well
placeholderRequestsAllKeys(data, mainContent) ==
    [k \in 1..Len(data) |-> ReplaceAllText(braces(data[k][1]), data[k][2])]

\* step 2: one replaceAllText per own key of placeholderData but the key of
\* the main-content placeholder
placeholderRequests(data, mainContent) ==
    Flatten([k \in 1..Len(data) |->
        IF ~(mainContent.defined /\ braces(data[k][1]) = mainContent.text)
        THEN <<ReplaceAllText(braces(data[k][1]), data[k][2])>>
        ELSE <<>>])

\* step 3, case A: the runs the two loops stop at
placeholderRuns(content, text) ==
    SelectSeq(content,
        LAMBDA run : run.paragraph /\ run.textRun /\ includes(run.content, text))

\* mutation: the offset within the run taken for the offset in the document
placeholderStartIndexInRun(run, text) == indexOf(run.content, text)

placeholderStartIndex(run, text) == run.startIndex + indexOf(run.content, text)

\* step 3 of the end of the function: the Markdown batch
apiRequests(v, markdown, index) ==
    IF markdown.blank THEN <<>>
    ELSE convertFrom(v, bodyNodes(v, markdown.body), 1, index, <<>>)

MainPlaceholder == <<"{", "{", "M", "}", "}">>

\* bodies of template documents
Templates ==
    {<<TextRun(<<"x">> \o MainPlaceholder \o <<NL>>)>>,
     <<TextRun(braces(<<"T">>) \o <<NL>>), TextRun(<<"a">>),
       TextRun(MainPlaceholder \o <<NL>>)>>,
     <<TextRun(<<"a", "b", NL>>)>>,
     <<TextRun(<<"{", "{">>), TextRun(<<"M", "}", "}", NL>>)>>,
     <<CellRun(MainPlaceholder), TextRun(<<NL>>)>>,
     <<InlineObject, TextRun(MainPlaceholder \o MainPlaceholder \o <<NL>>)>>}

PlaceholderDatas ==
    {<<>>,
     <<<<<<"M">>, <<"w">>>>>>,
     <<<<<<"T">>, <<"v", "v">>>>, <<<<"M">>, <<"w">>>>>>,
     <<<<<<"m">>, <<"z">>>>>>}

MainContentPlaceholders ==
    {[defined |-> TRUE, text |-> MainPlaceholder],
     [defined |-> TRUE, text |-> <<SP>>],
     [defined |-> FALSE, text |-> <<>>]}

\* blank, a comment alone, a paragraph, a nested list
MarkdownInputs ==
    {[blank |-> TRUE, body |-> <<>>],
     [blank |-> FALSE, body |-> <<>>],
     [blank |-> FALSE, body |-> <<PlainParagraph>>],
     [blank |-> FALSE, body |-> <<NestedList>>]}

\* google-docs-api.ts calls the processors that take a start index
ApiVersions == {"multiline", "cheerio"}

ApiInit ==
    /\ version \in ApiVersions
    /\ startIndex = 1
    /\ elements = <<>>
    /\ pos = 1
    /\ insertIndex = 1
    /\ requests = <<>>
    /\ lastRequests = <<>>
    /\ prevIndex = 1
    /\ pc = "idle"
    /\ pageBreakStrategy = "none"
    /\ outputFormat = ""
    /\ result = <<>>
    /\ doc = <<>>
    /\ bad = 0
    /\ ExecuteIdle
    /\ templateDocumentId \in BOOLEAN
    /\ IF templateDocumentId
       THEN /\ template \in Templates
            /\ placeholderData \in PlaceholderDatas
            /\ mainContentPlaceholder \in MainContentPlaceholders
       ELSE /\ template = <<>>
            /\ placeholderData = <<>>
            /\ mainContentPlaceholder = [defined |-> FALSE, text |-> <<>>]
    /\ markdownInput \in MarkdownInputs
    /\ folderName \in BOOLEAN
    /\ remote = <<>>
    /\ docResponse = <<>>
    /\ markdownInsertIndex = 1
    /\ contentRequests = <<>>
    /\ calls = <<>>
    /\ apc = "start"

apiInputs == <<templateDocumentId, template, placeholderData, mainContentPlaceholder,
               markdownInput, folderName>>

otherVars == <<converterVars, executeVars>>

Send(call) == calls' = Append(calls, call)

\* step 1: POST drive/v3/files/{template}/copy
CopyTemplate ==
    /\ apc = "start" /\ templateDocumentId
    /\ Send(Call("POST", "files/copy", <<>>))
    /\ remote' = template
    /\ apc' = "copied"
    /\ UNCHANGED <<apiInputs, docResponse, markdownInsertIndex, contentRequests,
                   version, otherVars>>

\* no template: POST drive/v3/files
CreateDocument ==
    /\ apc = "start" /\ ~templateDocumentId
    /\ Send(Call("POST", "files", <<>>))
    /\ remote' = <<TextRun(<<NL>>)>>
    /\ apc' = "folder"
    /\ UNCHANGED <<apiInputs, docResponse, markdownInsertIndex, contentRequests,
                   version, otherVars>>

\* step 2: the batch of replaceAllText, if it holds a request
ReplacePlaceholders ==
    /\ apc = "copied"
    /\ LET batch == placeholderRequests(placeholderData, mainContentPlaceholder)
       IN IF batch # <<>>
          THEN /\ Send(Call("POST", "documents:batchUpdate", batch))
               /\ remote' = replaceAllFrom(remote, batch, 1)
          ELSE UNCHANGED <<calls, remote>>
    /\ apc' = "replaced"
    /\ UNCHANGED <<apiInputs, docResponse, markdownInsertIndex, contentRequests,
                   version, otherVars>>

SearchesPlaceholder ==
    mainContentPlaceholder.defined /\ trim(mainContentPlaceholder.text) # <<>>

\* step 3, case A: GET the body; a run holds the placeholder
PlaceholderFound ==
    /\ apc = "replaced" /\ SearchesPlaceholder
    /\ placeholderRuns(bodyContent(remote), mainContentPlaceholder.text) # <<>>
    /\ Send(Call("GET", "documents", <<>>))
    /\ docResponse' = bodyContent(remote)
    /\ LET run == placeholderRuns(bodyContent(remote), mainContentPlaceholder.text)[1]
           start == placeholderStartIndex(run, mainContentPlaceholder.text)
       IN /\ contentRequests' =
                <<DeleteContentRange(start, start + Len(mainContentPlaceholder.text))>>
          /\ markdownInsertIndex' = start
    /\ apc' = "prepared"
    /\ UNCHANGED <<apiInputs, remote, version, otherVars>>

\* step 3, case A: GET the body; no run holds the placeholder: throw
PlaceholderNotFound ==
    /\ apc = "replaced" /\ SearchesPlaceholder
    /\ placeholderRuns(bodyContent(remote), mainContentPlaceholder.text) = <<>>
    /\ Send(Call("GET", "documents", <<>>))
    /\ docResponse' = bodyContent(remote)
    /\ apc' = "failed"
    /\ UNCHANGED <<apiInputs, remote, markdownInsertIndex, contentRequests,
                   version, otherVars>>

\* step 3, case B: a blank placeholder: GET the body and clear it.  The body
\* of a document holds its section break and at least one paragraph.
ClearBody ==
    /\ apc = "replaced" /\ ~SearchesPlaceholder /\ mainContentPlaceholder.defined
    /\ Send(Call("GET", "documents", <<>>))
    /\ docResponse' = bodyContent(remote)
    /\ contentRequests' =
           IF bodyEndIndex(remote) > 1
           THEN <<DeleteContentRange(1, bodyEndIndex(remote) - 1)>>
           ELSE <<>>
    /\ apc' = "prepared"
    /\ UNCHANGED <<apiInputs, remote, markdownInsertIndex, version, otherVars>>

\* step 3, no main-content placeholder
KeepBody ==
    /\ apc = "replaced" /\ ~mainContentPlaceholder.defined
    /\ apc' = "prepared"
    /\ UNCHANGED <<apiInputs, remote, docResponse, markdownInsertIndex,
                   contentRequests, calls, version, otherVars>>

\* the batch of contentRequests, if it holds a request
SubmitContentRequests ==
    /\ apc = "prepared"
    /\ IF contentRequests # <<>>
       THEN /\ Send(Call("POST", "documents:batchUpdate", contentRequests))
            /\ remote' = deleteContent(remote, contentRequests)
       ELSE UNCHANGED <<calls, remote>>
    /\ apc' = "folder"
    /\ UNCHANGED <<apiInputs, docResponse, markdownInsertIndex, contentRequests,
                   version, otherVars>>

\* the folder name: a GET of its own try block when none was passed
ResolveFolderName ==
    /\ apc = "folder"
    /\ IF ~folderName
       THEN Send(Call("GET", "files/folder", <<>>))
       ELSE UNCHANGED calls
    /\ apc' = "markdown"
    /\ UNCHANGED <<apiInputs, remote, docResponse, markdownInsertIndex,
                   contentRequests, version, otherVars>>

\* the Markdown batch, converted from markdownInsertIndex on, and the return
InsertMarkdown ==
    /\ apc = "markdown"
    /\ LET batch == apiRequests(version, markdownInput, markdownInsertIndex)
       IN IF batch # <<>>
          THEN Send(Call("POST", "documents:batchUpdate", batch))
          ELSE UNCHANGED calls
    /\ apc' = "done"
    /\ UNCHANGED <<apiInputs, remote, docResponse, markdownInsertIndex,
                   contentRequests, version, otherVars>>

\* the request the next step sends is refused: the catch block throws on
SendsRequest ==
    \/ apc = "start"
    \/ apc = "copied"
          /\ placeholderRequests(placeholderData, mainContentPlaceholder) # <<>>
    \/ apc = "replaced" /\ mainContentPlaceholder.defined
    \/ apc = "prepared" /\ contentRequests # <<>>
    \/ apc = "markdown"
          /\ apiRequests(version, markdownInput, markdownInsertIndex) # <<>>

RequestFails ==
    /\ SendsRequest
    /\ apc' = "failed"
    /\ UNCHANGED <<apiInputs, remote, docResponse, markdownInsertIndex,
                   contentRequests, calls, version, otherVars>>

ApiNext ==
    \/ CopyTemplate
    \/ CreateDocument
    \/ ReplacePlaceholders
    \/ PlaceholderFound
    \/ PlaceholderNotFound
    \/ ClearBody
    \/ KeepBody
    \/ SubmitContentRequests
    \/ ResolveFolderName
    \/ InsertMarkdown
    \/ RequestFails

ApiSpec == ApiInit /\ [][ApiNext]_vars

(***************************************************************************)
(* Properties                                                              *)
(***************************************************************************)
Processed == pos > 1
LastNode == elements[pos - 1]
LastWasList == Processed /\ LastNode.name \in {"UL", "OL"}

Emitted(req) == \E k \in 1..Len(lastRequests) : lastRequests[k] = req

CountTabs(text) == Len(SelectSeq(text, LAMBDA c : c = TAB))

\* characters the InsertText operations of a block insert, and the tabs among them
InsertedLength(reqs) ==
    SumSeq([i \in 1..Len(InsertTexts(reqs)) |-> Len(InsertTexts(reqs)[i].text)])
InsertedTabs(reqs) ==
    SumSeq([i \in 1..Len(InsertTexts(reqs)) |-> CountTabs(InsertTexts(reqs)[i].text)])

\* C1: applied in array order to the document, no request of a conversion
\* names an offset that does not exist at that step.
C1_OffsetsExist == pc = "done" => bad = 0

\* C2: after a block that emitted operations the cursor is the index of the
\* block's last InsertText plus the length of its text, whatever operations
\* follow that InsertText; a block that emitted nothing leaves the cursor alone.
C2_CursorRule ==
    Processed =>
        IF Len(lastRequests) > 0
        THEN LET ins == InsertTexts(lastRequests)
             IN /\ Len(ins) > 0
                /\ insertIndex = ins[Len(ins)].index + Len(ins[Len(ins)].text)
        ELSE insertIndex = prevIndex

\* a block whose last operation is not an InsertText has been processed
C2_Witness ==
    /\ Processed /\ Len(lastRequests) > 0
    /\ lastRequests[Len(lastRequests)].op \in RangeOps
    /\ insertIndex > prevIndex

\* C3: after a list with nested items the cursor is the end of the list as it
\* stands once createParagraphBullets has removed the tabs: everything the
\* block inserted, less the tabs.
C3_CursorAfterNestedList ==
    (LastWasList /\ InsertedTabs(lastRequests) > 0) =>
        insertIndex = prevIndex + InsertedLength(lastRequests)
                                - InsertedTabs(lastRequests)

\* the block handed the cursor on past the tabs that were removed
C3_NaiveEnd ==
    /\ LastWasList /\ InsertedTabs(lastRequests) > 0
    /\ insertIndex = prevIndex + InsertedLength(lastRequests)

\* positions of the InsertText operations in a block's requests
InsertTextPositions(reqs) ==
    SelectSeq([i \in 1..Len(reqs) |-> i], LAMBDA i : reqs[i].op = "insertText")

\* how many operations `op` lie between positions p and q
Between(reqs, p, q, op) ==
    Cardinality({k \in (p + 1)..(q - 1) : reqs[k].op = op})

\* distance from the end of the j-th InsertText's text to the next InsertText
Gap(reqs, j) ==
    LET P == InsertTextPositions(reqs)
    IN reqs[P[j + 1]].index - (reqs[P[j]].index + Len(reqs[P[j]].text))

C5_StyleRanges ==
    pc = "done" =>
        \A i \in 1..Len(requests) :
            requests[i].op \in RangeOps =>
                /\ requests[i].startIndex < requests[i].endIndex
                /\ 1 <= requests[i].startIndex
                /\ requests[i].endIndex <= insertIndex

\* the list that was just processed, as processList sees it
LastListPreset ==
    IF LastNode.name = "OL" THEN "NUMBERED_DECIMAL_ALPHA_ROMAN"
    ELSE IF descendants(LastNode, {"INPUT"}) # <<>> THEN "BULLET_CHECKBOX"
    ELSE "BULLET_DISC_CIRCLE_SQUARE"
LastListItems == processListItemsRecursively(version, LastNode, 0, LastListPreset)
LastListMetas ==
    lineMetadata(LastListItems, IF version = "cheerio" THEN prevIndex ELSE prevIndex + 1)

\* the first two lines of the list are item A at level 0 and item B at level 1
TwoLevel(metas) ==
    /\ Len(metas) >= 2
    /\ metas[1].line.isPrimary /\ metas[1].level = 0
    /\ metas[2].line.isPrimary /\ metas[2].level = 1

\* C6 as stated: in a list of A (level 0) and B (level 1) the start B's
\* formatting is anchored at is B's start with the tabs in place, minus 1.
C6_NestedStartMinusOne ==
    LastWasList =>
        LET metas == LastListMetas
        IN TwoLevel(metas) =>
              adjustedStartIndex(version, metas, 2, prevIndex) = metas[2].startIndex - 1

\* C6, amended: B's formatting is anchored at B's start with the tabs in place,
\* unchanged (A, the only primary line before it, has no tab), and B's format
\* requests are emitted from there; the line after B is the first one anchored
\* 1 lower.
C6_NestedStartUnchanged ==
    LastWasList =>
        LET metas == LastListMetas
            fromB == formatRequests(metas[2].line.formatRanges, metas[2].startIndex)
        IN TwoLevel(metas) =>
              /\ adjustedStartIndex(version, metas, 2, prevIndex) = metas[2].startIndex
              /\ \A n \in 1..Len(fromB) :
                    \E k \in 1..Len(lastRequests) : lastRequests[k] = fromB[n]
              /\ Len(metas) >= 3 =>
                    adjustedStartIndex(version, metas, 3, prevIndex)
                        = metas[3].startIndex - 1

\* A / nested bold B / C has been processed
C6_Witness ==
    /\ LastWasList
    /\ LET metas == LastListMetas
       IN /\ TwoLevel(metas) /\ Len(metas) >= 3
          /\ Len(metas[2].line.formatRanges) > 0
          /\ metas[2].startIndex > prevIndex

\* The text a node sequence contributes, written out from the DOM alone
RECURSIVE plainText(_, _)
plainText(v, nodes) ==
    Flatten([k \in 1..Len(nodes) |->
        IF IsText(nodes[k])
        THEN (IF v = "cheerio" THEN stripNewlines(nodes[k].text) ELSE nodes[k].text)
        ELSE IF v # "jsdom" /\ nodes[k].name = "BR" THEN <<NL>>
        ELSE plainText(v, nodes[k].kids)])

IsMarkup(v, node) ==
    /\ ~IsText(node)
    /\ ~(v # "jsdom" /\ node.name = "BR")
    /\ getFormatType(node.name) # "none"
    /\ plainText(v, <<node>>) # <<>>

\* The span of every markup node with text, from its place in the DOM: it
\* starts after the text of everything before it
RECURSIVE markupSpans(_, _, _)
markupSpans(v, nodes, base) ==
    UNION {LET off == base + Len(plainText(v, SubSeq(nodes, 1, k - 1)))
           IN (IF IsMarkup(v, nodes[k])
               THEN {[start |-> off, end |-> off + Len(plainText(v, <<nodes[k]>>)),
                      type |-> getFormatType(nodes[k].name)]}
               ELSE {})
              \cup (IF IsText(nodes[k]) THEN {}
                    ELSE markupSpans(v, nodes[k].kids, off))
           : k \in 1..Len(nodes)}

RECURSIVE countMarkup(_, _)
countMarkup(v, nodes) ==
    SumSeq([k \in 1..Len(nodes) |->
        (IF IsMarkup(v, nodes[k]) THEN 1 ELSE 0)
        + (IF IsText(nodes[k]) THEN 0 ELSE countMarkup(v, nodes[k].kids))])

Spans(ranges) ==
    {[start |-> ranges[i].start, end |-> ranges[i].end, type |-> ranges[i].type] :
        i \in 1..Len(ranges)}

\* the first line of every list item that carries a checkbox, with the item's
\* nodes and the prefix put before it
CheckboxItems(v, element, bulletPreset) ==
    LET lis == descendants(element, {"LI"})
    IN {[nodes |-> nonNestedChildren(li),
         prefix |-> checkboxPrefix(v, descendants(li, {"INPUT"})[1].attr.checked),
         line |-> itemLines(v, li, bulletPreset)[1]] :
           li \in {lis[i] : i \in {j \in 1..Len(lis) :
                       descendants(lis[j], {"INPUT"}) # <<>>}}}

\* C7: in "- [x] **done**" the bold range starts at 2 and covers "done", and
\* every range of a checkbox item's first line sits at its place in the trimmed
\* item text plus the length of the prefix.
C7_CheckboxRangeShift ==
    (LastWasList /\ LastListPreset = "BULLET_CHECKBOX") =>
        /\ LastNode = CheckboxList =>
              LET line == LastListItems[1].lines[1]
              IN /\ Len(line.formatRanges) = 1
                 /\ line.formatRanges[1].type = "bold"
                 /\ line.formatRanges[1].start = 2
                 /\ SubSeq(line.text, line.formatRanges[1].start + 1,
                           line.formatRanges[1].end) = <<"d", "o", "n", "e">>
        /\ \A item \in CheckboxItems(version, LastNode, LastListPreset) :
              LET raw == plainText(version, item.nodes)
                  lead == Len(raw) - Len(trimStart(raw))
              IN Spans(item.line.formatRanges)
                   = {[m EXCEPT !.start = @ - lead + Len(item.prefix),
                               !.end = @ - lead + Len(item.prefix)] :
                         m \in markupSpans(version, item.nodes, 0)}

\* the paragraph just processed went through the inline formatter
LastWasInlineParagraph ==
    /\ Processed /\ LastNode.name = "P"
    /\ hasInlineFormatting(version, LastNode)
    /\ ~hasDescendant(LastNode, {"IMG"})

\* C8: the inline formatter returns the concatenated text and one range per
\* markup node with text, over exactly the text of that node's subtree, so an
\* outer node's range contains the ranges of the nodes nested in it;
\* "**bold** and *italic*" yields two ranges that do not overlap.
C8_OneRangePerMarkupNode ==
    LastWasInlineParagraph =>
        LET r == processChildNodes(version, LastNode.kids)
        IN /\ r.text = plainText(version, LastNode.kids)
           /\ version = "jsdom" => r.text = textContent(LastNode)
           /\ Spans(r.ranges) = markupSpans(version, LastNode.kids, 0)
           /\ Len(r.ranges) = countMarkup(version, LastNode.kids)
           /\ \A i, j \in 1..Len(r.ranges) :
                 \/ r.ranges[i].end <= r.ranges[j].start
                 \/ r.ranges[j].end <= r.ranges[i].start
                 \/ (r.ranges[i].start <= r.ranges[j].start
                       /\ r.ranges[j].end <= r.ranges[i].end)
                 \/ (r.ranges[j].start <= r.ranges[i].start
                       /\ r.ranges[i].end <= r.ranges[j].end)
           /\ \A i \in 1..Len(r.ranges) :
                 \A q \in {createFormatRequest(r.ranges[i], prevIndex)} :
                     \A n \in 1..Len(q) :
                         \E k \in 1..Len(lastRequests) : lastRequests[k] = q[n]
           /\ LastNode = BoldItalicParagraph =>
                 /\ Len(r.ranges) = 2
                 /\ r.ranges[1].end <= r.ranges[2].start
                 /\ r.ranges[2].end <= Len(r.text)

\* a paragraph with markup nested in markup has been processed
C8_Witness ==
    /\ LastWasInlineParagraph
    /\ \E i, j \in 1..Len(processChildNodes(version, LastNode.kids).ranges) :
          LET rs == processChildNodes(version, LastNode.kids).ranges
          IN i # j /\ rs[i].start <= rs[j].start /\ rs[j].end <= rs[i].end

\* C9: every range the formatter hands out lies inside the text it belongs to,
\* 0 <= start < end <= length, list lines that were trimmed or given a prefix
\* included.
C9_RangesInsideText ==
    /\ LastWasList =>
          LET metas == LastListMetas
          IN \A k \in 1..Len(metas) :
                 \A i \in 1..Len(metas[k].line.formatRanges) :
                     LET range == metas[k].line.formatRanges[i]
                     IN /\ 0 <= range.start /\ range.start < range.end
                        /\ range.end <= Len(metas[k].line.text)
    /\ LastWasInlineParagraph =>
          LET r == processChildNodes(version, LastNode.kids)
          IN \A i \in 1..Len(r.ranges) :
                 /\ 0 <= r.ranges[i].start /\ r.ranges[i].start < r.ranges[i].end
                 /\ r.ranges[i].end <= Len(r.text)

\* the table that was just processed
LastWasTable == Processed /\ LastNode.name = "TABLE" /\ Len(lastRequests) > 0

\* the cells of the table as <<row, column>>
TableCells(data) ==
    UNION {{<<r, c>> : c \in 1..Len(data[r])} : r \in 1..Len(data)}

\* header cell by the DOM: a cell of the first row, or a <th>
IsHeaderCell(table, r, c) ==
    \/ r = 1
    \/ descendants(descendants(table, {"TR"})[r], {"TH", "TD"})[c].name = "TH"

\* where the text of cell (r, c) starts: 4 past the table's index, past the
\* text of the cells before it and 2 for each of them, and 1 for each row ended
CellStart(data, tableIndex, r, c) ==
    LET cellsBefore == Flatten([i \in 1..(r - 1) |-> data[i]]) \o SubSeq(data[r], 1, c - 1)
    IN tableIndex + 4
       + SumSeq([k \in 1..Len(cellsBefore) |-> Len(cellsBefore[k].content)])
       + 2 * Len(cellsBefore) + (r - 1)

\* the requests of a kind and style whose range starts within [start, end]
StylesWithin(reqs, start, end, op, style) ==
    {reqs[k] : k \in {j \in 1..Len(reqs) :
        /\ reqs[j].op = op /\ reqs[j].style = style
        /\ reqs[j].startIndex >= start /\ reqs[j].startIndex <= end}}

\* C10 as stated: every header cell gets bold and CENTER over its text span,
\* and no other cell gets either.
C10_HeaderCells ==
    LastWasTable =>
        LET data == tableData(version, LastNode)
        IN \A rc \in TableCells(data) :
            LET start == CellStart(data, prevIndex, rc[1], rc[2])
                end == start + Len(data[rc[1]][rc[2]].content)
                bold == StylesWithin(lastRequests, start, end, "updateTextStyle", "bold")
                center == StylesWithin(lastRequests, start, end,
                                       "updateParagraphStyle", "CENTER")
            IN IF IsHeaderCell(LastNode, rc[1], rc[2])
               THEN /\ UpdateTextStyle(start, end, "bold") \in bold
                    /\ UpdateParagraphStyle(start, end, "CENTER") \in center
               ELSE bold = {} /\ center = {}

\* C10, amended: every header cell with text gets bold and CENTER over its
\* text span; a header cell without text gets neither; a cell that is no
\* header gets no CENTER, and no bold other than that of its own bold markup.
C10_HeaderCellsWithText ==
    LastWasTable =>
        LET data == tableData(version, LastNode)
        IN \A rc \in TableCells(data) :
            LET cell == data[rc[1]][rc[2]]
                start == CellStart(data, prevIndex, rc[1], rc[2])
                end == start + Len(cell.content)
                bold == StylesWithin(lastRequests, start, end, "updateTextStyle", "bold")
                center == StylesWithin(lastRequests, start, end,
                                       "updateParagraphStyle", "CENTER")
                ownBold == {UpdateTextStyle(start + cell.formatRanges[i].start,
                                            start + cell.formatRanges[i].end, "bold") :
                               i \in {j \in 1..Len(cell.formatRanges) :
                                         cell.formatRanges[j].type = "bold"}}
            IN IF IsHeaderCell(LastNode, rc[1], rc[2]) /\ cell.content # <<>>
               THEN /\ UpdateTextStyle(start, end, "bold") \in bold
                    /\ center = {UpdateParagraphStyle(start, end, "CENTER")}
               ELSE IF IsHeaderCell(LastNode, rc[1], rc[2])
               THEN bold = {} /\ center = {}
               ELSE center = {} /\ bold = ownBold

\* a table with an empty header cell, a <th> in the body and a bold body cell
C10_Witness ==
    /\ LastWasTable
    /\ LET data == tableData(version, LastNode)
       IN /\ \E rc \in TableCells(data) :
                IsHeaderCell(LastNode, rc[1], rc[2]) /\ data[rc[1]][rc[2]].content = <<>>
          /\ \E rc \in TableCells(data) :
                /\ rc[1] > 1 /\ IsHeaderCell(LastNode, rc[1], rc[2])
                /\ data[rc[1]][rc[2]].content # <<>>
          /\ \E rc \in TableCells(data) :
                /\ ~IsHeaderCell(LastNode, rc[1], rc[2])
                /\ data[rc[1]][rc[2]].formatRanges # <<>>
                /\ Emitted(UpdateTextStyle(
                       CellStart(data, prevIndex, rc[1], rc[2]),
                       CellStart(data, prevIndex, rc[1], rc[2]) + 1, "bold"))

(***************************************************************************)
(* Tables whose rows differ in their number of cells                       *)
(***************************************************************************)
IsRagged(data) == \E r \in 1..Len(data) : Len(data[r]) # Len(data[1])

cellContents(data) ==
    [r \in 1..Len(data) |-> [c \in 1..Len(data[r]) |-> data[r][c].content]]

HasOp(reqs, op) == \E k \in 1..Len(reqs) : reqs[k].op = op

RaggedFallback(data) ==
    IsRagged(data) =>
        /\ lastRequests = processTableAsText(cellContents(data), prevIndex)
        /\ ~HasOp(lastRequests, "insertTable")

\* C11: a table whose rows have inconsistent column counts is rendered as
\* the single InsertText text-fallback block at the block's insertion index,
\* with no InsertTable in the output.
C11_RaggedTableFallback ==
    LastWasTable => RaggedFallback(tableData(version, LastNode))

RaggedAsTable(data) ==
    /\ IsRagged(data)
    /\ lastRequests[1] = InsertTable(prevIndex, Len(data), Len(data[1]))

\* what the code does with such a table: it emits InsertTable
C11_RaggedTableEmitted ==
    LastWasTable /\ RaggedAsTable(tableData(version, LastNode))

(***************************************************************************)
(* Images without a usable source                                          *)
(***************************************************************************)
\* the sources the fallback is for: empty, too long, unparseable, not
\* http(s), or neither an image extension nor an image host
UnusableSource(src) ==
    \/ src.len = 0
    \/ src.len > 2000
    \/ ~src.parses
    \/ src.scheme \notin {"http:", "https:"}
    \/ (~src.ext /\ ~src.service)

OnlyUnusableImages(node) ==
    LET imgs == descendants(node, {"IMG"})
    IN /\ imgs # <<>>
       /\ \A k \in 1..Len(imgs) : UnusableSource(imgs[k].attr.src)

FallbackOnly(reqs) ==
    /\ Len(reqs) >= 2
    /\ reqs[1].op = "insertText"
    /\ reqs[1].index = prevIndex
    /\ \A k \in 2..Len(reqs) : reqs[k].op = "updateTextStyle"
    /\ insertIndex = prevIndex + Len(reqs[1].text)

\* C12: an image without a usable source never produces InsertInlineImage;
\* it produces one InsertText followed by text-style operations only, the
\* cursor advances by the length of the inserted fallback text, and the
\* conversion goes on to the end of the node list.
C12_ImageFallback ==
    /\ (Processed /\ LastNode.name = "IMG" /\ UnusableSource(LastNode.attr.src))
           => FallbackOnly(lastRequests)
    /\ (Processed /\ LastNode.name = "P" /\ OnlyUnusableImages(LastNode))
           => ~HasOp(lastRequests, "insertInlineImage")
    /\ (pc = "done") => (pos = Len(elements) + 1)

\* a block converted after an image that fell back
C12_Witness ==
    /\ pos = 3
    /\ elements[1].name = "IMG" /\ UnusableSource(elements[1].attr.src)
    /\ ~HasOp(requests, "insertInlineImage")
    /\ lastRequests # <<>>
    /\ requests[1].op = "insertText" /\ Len(requests[1].text) > 2000
    /\ lastRequests[1].index = startIndex + Len(requests[1].text)

(***************************************************************************)
(* The returned value in the two output formats                            *)
(***************************************************************************)
Returned == pc \in {"returned", "done"}

NumberedAs(list, reqs) ==
    /\ Len(list) = Len(reqs)
    /\ \A k \in 1..Len(list) : list[k].requestId = k /\ list[k].request = reqs[k]

\* C13: batchUpdateRequest.requests holds the operations the loop produced
\* whichever output format was asked for; 'single' returns no numbered list;
\* 'multiple' also returns a list whose k-th entry has requestId k and
\* carries the k-th operation.
C13_OutputFormats ==
    Returned =>
        /\ result.batchUpdateRequest.requests = requests
        /\ (outputFormat = "single") => ("requests" \notin DOMAIN result)
        /\ (outputFormat = "multiple") =>
               /\ "requests" \in DOMAIN result
               /\ NumberedAs(result.requests, requests)

\* a conversion asked for 'multiple' that returned several operations
C13_Witness ==
    /\ pc = "returned" /\ outputFormat = "multiple"
    /\ Len(result.requests) >= 3
    /\ result.requests[3] = [requestId |-> 3, request |-> requests[3]]

(***************************************************************************)
(* Page breaks before headings                                             *)
(***************************************************************************)
\* the last node is a heading the strategy puts a break before
BreakExpected ==
    \/ /\ pageBreakStrategy = "h1" /\ LastNode.name = "H1"
       /\ \E k \in 1..(pos - 2) : elements[k].name = "H1"
    \/ pageBreakStrategy = "h2" /\ LastNode.name = "H2"

BreakPositions(reqs) == {k \in 1..Len(reqs) : reqs[k].op = "insertPageBreak"}

BreaksOnlyBeforeHeading(reqs, expected) ==
    /\ BreakPositions(reqs) = (IF expected THEN {1} ELSE {})
    /\ expected => (Len(reqs) >= 2 /\ reqs[2].op = "insertText")

\* req with its offsets moved back by d
ShiftBack(req, d) ==
    IF req.op \in RangeOps
    THEN [req EXCEPT !.startIndex = @ - d, !.endIndex = @ - d]
    ELSE [req EXCEPT !.index = @ - d]

\* reqs[k..] without the page breaks, every other operation moved back by 2
\* per page break that precedes it
RECURSIVE WithoutBreaks(_, _, _)
WithoutBreaks(reqs, k, breaks) ==
    IF k > Len(reqs) THEN <<>>
    ELSE IF reqs[k].op = "insertPageBreak" THEN WithoutBreaks(reqs, k + 1, breaks + 1)
    ELSE <<ShiftBack(reqs[k], 2 * breaks)>> \o WithoutBreaks(reqs, k + 1, breaks)

\* C14: with the H1 strategy an InsertPageBreak comes immediately before
\* the InsertText of every H1 but the first, with the H2 strategy before
\* that of every H2, and nowhere else; every operation after a page break
\* has its offsets 2 higher per preceding break than in the conversion
\* without page breaks.
C14_PageBreaks ==
    /\ Processed => BreaksOnlyBeforeHeading(lastRequests, BreakExpected)
    /\ Returned =>
           WithoutBreaks(requests, 1, 0)
               = convertFrom(version, elements, 1, startIndex, <<>>)

\* two breaks precede the operations of the third block
C14_Witness ==
    /\ pc = "returned" /\ Len(elements) = 3
    /\ Cardinality(BreakPositions(requests)) = 2
    /\ lastRequests # <<>>
    /\ requests[Len(requests)].op \in RangeOps
    /\ ShiftBack(requests[Len(requests)], 4)
           = convertFrom(version, elements, 1, startIndex, <<>>)[Len(requests) - 2]

(***************************************************************************)
(* The start offset a list line's formatting is anchored at                *)
(***************************************************************************)
\* the sum of the levels of the primary lines before line k
RECURSIVE PrimaryLevelsBefore(_, _)
PrimaryLevelsBefore(metas, k) ==
    IF k <= 1 THEN 0
    ELSE PrimaryLevelsBefore(metas, k - 1)
         + (IF metas[k - 1].line.isPrimary THEN metas[k - 1].level ELSE 0)

\* what phase 3 emits when every line is anchored at its start with the tabs
\* in place minus the levels of the primary lines before it
ExpectedLineRequests(metas) ==
    Flatten([k \in 1..Len(metas) |->
        lineRequestsAt(metas, k, metas[k].startIndex - PrimaryLevelsBefore(metas, k))])

BulletsPosition(reqs) == CHOOSE k \in 1..Len(reqs) : reqs[k].op = "createParagraphBullets"

AnchoredAsExpected(reqs, p, expected) ==
    /\ Len(reqs) >= p + Len(expected)
    /\ SubSeq(reqs, p + 1, p + Len(expected)) = expected

\* C15: the operations emitted for the lines of a list after its
\* createParagraphBullets (inline formatting, and the corrections of
\* secondary lines) are anchored, line by line, at the line's start offset
\* with the tabs in place minus the sum of the levels of the primary lines
\* before it; its own tabs and secondary lines add nothing.
C15_LineBaseOffset ==
    LastWasList =>
        AnchoredAsExpected(lastRequests, BulletsPosition(lastRequests),
                           ExpectedLineRequests(LastListMetas))

DeepLines(metas) ==
    /\ Len(metas) >= 5
    /\ \E k \in 2..Len(metas) :
          /\ metas[k].level = 2 /\ Len(metas[k].line.formatRanges) > 0
          /\ ~metas[k - 1].line.isPrimary /\ metas[k - 1].level = 1
          /\ PrimaryLevelsBefore(metas, k) = 1
          /\ PrimaryLevelsBefore(metas, Len(metas)) = 4
          /\ Emitted(UpdateTextStyle(metas[k].startIndex - 1, metas[k].startIndex,
                                      "bold"))

\* x / c, d / bold g at level 2 / bold f / bold e has been processed: g comes
\* after the secondary line d and is anchored 1 below its start
C15_Witness == LastWasList /\ DeepLines(LastListMetas)

(***************************************************************************)
(* Headings                                                                *)
(***************************************************************************)
LastWasHeading == Processed /\ LastNode.name \in HeadingNames

NamedStyleOf ==
    [H1 |-> "HEADING_1", H2 |-> "HEADING_2", H3 |-> "HEADING_3", H4 |-> "HEADING_4",
     H5 |-> "HEADING_5", H6 |-> "HEADING_6"]

HeadingOps(reqs, i, t, style) ==
    /\ Len(reqs) = 2
    /\ reqs[1] = InsertText(i, t \o <<NL>>)
    /\ reqs[2].op = "updateParagraphStyle"
    /\ reqs[2].startIndex = i /\ reqs[2].endIndex = i + Len(t)
    /\ reqs[2].endIndex < i + Len(reqs[1].text)
    /\ reqs[2].style = style

\* C16: a heading of level n with text t converted at index i emits
\* InsertText(i, t + newline) followed by a paragraph-style operation whose
\* range is exactly [i, i + len(t)], the newline left out, with style
\* HEADING_n.
C16_HeadingOps ==
    LastWasHeading =>
        HeadingOps(lastRequests, prevIndex, textContent(LastNode),
                   NamedStyleOf[LastNode.name])

\* the level-4 heading "**d**e" converted after another block
C16_Witness ==
    /\ LastWasHeading /\ LastNode.name = "H4" /\ prevIndex > startIndex
    /\ lastRequests[1].text = <<"d", "e", NL>>
    /\ lastRequests[2] = UpdateParagraphStyle(prevIndex, prevIndex + 2, "HEADING_4")

(***************************************************************************)
(* Cell boundaries of a table                                              *)
(***************************************************************************)
\* the cells in row-major order, each with its row
RowMajor(data) ==
    Flatten([r \in 1..Len(data) |->
        [c \in 1..Len(data[r]) |-> [content |-> data[r][c].content, row |-> r]]])

\* the boundary of the k-th cell: i + 3 for the first, then the previous
\* boundary plus the previous cell's content length plus 2, plus rowStep
\* when the k-th cell opens a new row
RECURSIVE Boundary(_, _, _, _)
Boundary(cells, k, i, rowStep) ==
    IF k <= 1 THEN i + 3
    ELSE Boundary(cells, k - 1, i, rowStep) + Len(cells[k - 1].content) + 2
         + (IF cells[k].row # cells[k - 1].row THEN rowStep ELSE 0)

\* every cell has one InsertText, in row-major order, 1 past its boundary
CellTextsAt(ins, cells, i, rowStep) ==
    /\ Len(ins) = Len(cells) + 1
    /\ \A k \in 1..Len(cells) : ins[k].index = Boundary(cells, k, i, rowStep) + 1

\* C17 as stated: the first cell's text is inserted 1 past the boundary
\* i + 3; each later cell's boundary is the previous boundary plus the
\* previous cell's content length plus 2, and nothing else is added, row
\* ends included.
C17_CellBoundaries ==
    LastWasTable =>
        CellTextsAt(InsertTexts(lastRequests), RowMajor(tableData(version, LastNode)),
                    prevIndex, 0)

\* C17, amended: as above, and 1 more for a cell that opens a new row.
C17_CellBoundariesRowStep ==
    LastWasTable =>
        CellTextsAt(InsertTexts(lastRequests), RowMajor(tableData(version, LastNode)),
                    prevIndex, 1)

\* the 2 x 2 table h, i / c, d at index i: texts at i + 4, i + 7, i + 11, i + 14
C17_Witness ==
    /\ LastWasTable /\ LastNode = PlainTable
    /\ Emitted(InsertText(prevIndex + 4, <<"h">>))
    /\ Emitted(InsertText(prevIndex + 7, <<"i">>))
    /\ Emitted(InsertText(prevIndex + 11, <<"c">>))
    /\ Emitted(InsertText(prevIndex + 14, <<"d">>))
    /\ pc = "done" /\ bad = 0
    /\ doc[prevIndex + 11] = "c" /\ doc[prevIndex + 10] = "<cell>"
    /\ doc[prevIndex + 9] = "<row>"

(***************************************************************************)
(* Tables with empty cells, against the resulting document                 *)
(***************************************************************************)
\* the number of cell starts in the document before position p
CellStartsBefore(document, p) ==
    Cardinality({q \in 1..(p - 1) : document[q] = "<cell>"})

\* the k-th cell's text was put at the start of the k-th cell of the table,
\* and the InsertText after the table directly after the table's end
CellTextsInPlace(document, ins, cells, firstCell) ==
    /\ \A k \in 1..Len(cells) :
          cells[k].content # <<>> =>
              /\ document[ins[k].index - 1] = "<cell>"
              /\ CellStartsBefore(document, ins[k].index) = firstCell + k
    /\ document[ins[Len(ins)].index - 1] = "</table>"

HasEmptyCell(cells) == \E k \in 1..Len(cells) : cells[k].content = <<>>

\* C18: for a table with empty cells, the offsets of the later cells and of
\* the InsertText after the table agree with the document the earlier
\* operations produce: each non-empty cell's text starts its own cell, and
\* the closing newline follows the table.
C18_EmptyCellOffsets ==
    (LastWasTable /\ pc = "done" /\ bad = 0 /\ Len(elements) = 1) =>
        LET cells == RowMajor(tableData(version, LastNode))
        IN HasEmptyCell(cells) =>
              CellTextsInPlace(doc, InsertTexts(lastRequests), cells, 0)

\* the same agreement for a table whose cells all hold text
C18_FullCellOffsets ==
    (LastWasTable /\ pc = "done" /\ bad = 0 /\ Len(elements) = 1) =>
        LET cells == RowMajor(tableData(version, LastNode))
        IN (~HasEmptyCell(cells) /\ ~IsRagged(tableData(version, LastNode))) =>
              CellTextsInPlace(doc, InsertTexts(lastRequests), cells, 0)

\* h, empty, empty / bold c, empty, r at index 1: the text c, computed for
\* offset 13 after two empty cells, does not start a cell of the resulting
\* document: it lies before the start of the second row
C18_Witness ==
    /\ LastWasTable /\ pc = "done" /\ bad = 0 /\ Len(elements) = 1
    /\ LastNode = SparseTable /\ startIndex = 1
    /\ Emitted(InsertText(13, <<"c">>))
    /\ doc[13] = "c" /\ doc[12] # "<cell>" /\ doc[14] = "<row>"

(***************************************************************************)
(* Which image sources are accepted                                        *)
(***************************************************************************)
LastWasImage == Processed /\ LastNode.name = "IMG"

\* the source is a URL with scheme http or https whose path ends in an
\* image extension or whose host is an image host
LooksLikeImageUrl(src) ==
    /\ src.parses
    /\ src.scheme \in {"http:", "https:"}
    /\ (src.ext \/ src.service)

ImageOps(reqs, i) ==
    reqs = <<InsertText(i, <<NL>>), InsertInlineImage(i + 1), InsertText(i + 2, <<NL>>)>>

AcceptedIff(accepted) ==
    /\ HasOp(lastRequests, "insertInlineImage") <=> accepted
    /\ accepted => ImageOps(lastRequests, prevIndex)
    /\ ~accepted => FallbackOnly(lastRequests)

\* C19 as stated: an image URL is accepted for InsertInlineImage exactly
\* when its scheme is http or https, its length is under 2000, and it has an
\* image extension or an image host; a URL of 2000 characters or more goes
\* to the fallback.
C19_AcceptedUnder2000 ==
    LastWasImage =>
        AcceptedIff(LooksLikeImageUrl(LastNode.attr.src)
                    /\ LastNode.attr.src.len < 2000)

\* C19, amended: the length may be up to 2000 characters; only a URL of more
\* than 2000 characters goes to the fallback for its length.
C19_AcceptedUpTo2000 ==
    LastWasImage =>
        AcceptedIff(LooksLikeImageUrl(LastNode.attr.src)
                    /\ LastNode.attr.src.len >= 1
                    /\ LastNode.attr.src.len <= 2000)

\* an image URL of exactly 2000 characters was given to InsertInlineImage
C19_Witness ==
    /\ LastWasImage /\ LastNode.attr.src.len = 2000
    /\ lastRequests[2] = InsertInlineImage(prevIndex + 1)

(***************************************************************************)
(* The order and the levels of the flattened list items                    *)
(***************************************************************************)
\* the <li> elements below node in document order, each with the number of
\* lists it lies in below the list flattened (0 for the list's own items)
RECURSIVE ListItemsWithDepth(_, _)
ListItemsWithDepth(node, depth) ==
    Flatten([i \in 1..Len(node.kids) |->
        IF node.kids[i].name = "LI"
        THEN <<[li |-> node.kids[i], depth |-> depth]>>
             \o ListItemsWithDepth(node.kids[i], depth)
        ELSE IF node.kids[i].name \in {"UL", "OL"}
        THEN ListItemsWithDepth(node.kids[i], depth + 1)
        ELSE ListItemsWithDepth(node.kids[i], depth)])

\* the later generations push no entry for an <li> without lines
WithEntry(v, domItems, bulletPreset) ==
    SelectSeq(domItems,
        LAMBDA e : v = "jsdom" \/ itemLines(v, e.li, bulletPreset) # <<>>)

PreOrderWithDepth(v, flatItems, domItems, bulletPreset) ==
    /\ Len(flatItems) = Len(domItems)
    /\ \A k \in 1..Len(flatItems) :
          /\ flatItems[k].level = domItems[k].depth
          /\ flatItems[k].lines = itemLines(v, domItems[k].li, bulletPreset)

\* C20: the flattened items are the list's <li> elements in depth-first
\* pre-order (an item, then the items of its nested lists, then its next
\* sibling), each with its nesting depth as level (0 for the top list);
\* flattening the same node again gives the sequence the emitted operations
\* were built from.
C20_FlattenPreOrder ==
    LastWasList =>
        /\ PreOrderWithDepth(version, LastListItems,
               WithEntry(version, ListItemsWithDepth(LastNode, 0), LastListPreset),
               LastListPreset)
        /\ lastRequests = listRequests(version, LastListItems, prevIndex, LastListPreset)

ThreeLevels(flatItems) ==
    /\ Len(flatItems) = 5
    /\ [k \in 1..5 |-> flatItems[k].level] = <<0, 1, 2, 1, 0>>
    /\ flatItems[3].lines[1].text = <<"g">>
    /\ flatItems[4].lines[1].text = <<"f">>

\* x / c, d / g / f / e has been flattened to the levels 0, 1, 2, 1, 0
C20_Witness == LastWasList /\ LastNode = DeepList /\ ThreeLevels(LastListItems)

(***************************************************************************)
(* The first operations of a list: newline, list text, bullets             *)
(***************************************************************************)
\* all lines of the flattened items, primary lines after `level` tabs, each
\* followed by a newline
ListText(flatItems) ==
    Flatten([i \in 1..Len(flatItems) |->
        Flatten([j \in 1..Len(flatItems[i].lines) |->
            (IF flatItems[i].lines[j].isPrimary THEN repeatTab(flatItems[i].level) ELSE <<>>)
            \o flatItems[i].lines[j].text \o <<NL>>])])

LineCount(flatItems) == SumSeq([i \in 1..Len(flatItems) |-> Len(flatItems[i].lines)])

\* newline at i, the whole list text in one InsertText at i + 1, bullets over
\* [i + 1, i + 1 + len(text) - 1]
OneInsertText(reqs, i, text, preset) ==
    /\ Len(reqs) >= 3
    /\ reqs[1] = InsertText(i, <<NL>>)
    /\ reqs[2] = InsertText(i + 1, text)
    /\ reqs[3] = CreateParagraphBullets(i + 1, i + 1 + Len(text) - 1, preset)
    /\ Cardinality({k \in 1..Len(reqs) : reqs[k].op = "createParagraphBullets"}) = 1

ContiguousInsertTexts(reqs, p, i, whole) ==
    /\ \A k \in 1..(p - 1) : reqs[k].op = "insertText"
    /\ reqs[1].index = i
    /\ \A k \in 2..(p - 1) : reqs[k].index = reqs[k - 1].index + Len(reqs[k - 1].text)
    /\ Flatten([k \in 1..(p - 1) |-> reqs[k].text]) = whole

ListHead(v, reqs, p, i, text, lines, preset) ==
    /\ Cardinality({k \in 1..Len(reqs) : reqs[k].op = "createParagraphBullets"}) = 1
    /\ ContiguousInsertTexts(reqs, p, i,
            IF v = "cheerio" THEN text ELSE <<NL>> \o text)
    /\ v = "cheerio" =>
            /\ p = 2
            /\ reqs[p] = CreateParagraphBullets(i, i + Len(text) - 1, preset)
    /\ v # "cheerio" =>
            /\ reqs[1].text = <<NL>>
            /\ reqs[p] = CreateParagraphBullets(i + 1, i + 1 + Len(text) - 1, preset)
    /\ v = "multiline" => p = 3
    /\ v = "jsdom" => p = lines + 2

IndentStyle(s, e, level) ==
    [UpdateParagraphStyle(s, e, "indent") EXCEPT !.magnitude = 36 * (level + 1)]

\* the positions after the bullets where a bullet removal over [s, e] is
\* followed by the indentation of `level` over [s, e]
CorrectionsAt(reqs, p, s, e, level) ==
    {q \in (p + 1)..(Len(reqs) - 1) :
        /\ reqs[q] = DeleteParagraphBullets(s, e)
        /\ reqs[q + 1] = IndentStyle(s, e, level)}

\* bullet removals and indentations that start at s
CorrectionsFrom(reqs, s) ==
    {q \in 1..Len(reqs) :
        /\ reqs[q].startIndex = s
        /\ \/ reqs[q].op = "deleteParagraphBullets"
           \/ (reqs[q].op = "updateParagraphStyle" /\ reqs[q].style = "indent")}

SecondaryLines(reqs, p, metas) ==
    \A k \in 1..Len(metas) :
        LET s == metas[k].startIndex - PrimaryLevelsBefore(metas, k)
        IN IF metas[k].line.isPrimary
           THEN CorrectionsFrom(reqs, s) = {}
           ELSE /\ metas[k].textToInsert = metas[k].line.text
                /\ CorrectionsAt(reqs, p, s, s + Len(metas[k].line.text),
                                 metas[k].level) # {}
                /\ Cardinality(CorrectionsFrom(reqs, s)) = 2

\* C22: only the first line of an item is primary; a secondary line is
\* inserted without tabs and, after createParagraphBullets, gets a bullet
\* removal followed by an indentation of 36pt x (level + 1), both over
\* [correctedStart, correctedStart + len(line text)], the corrected start
\* counting primary lines only; a primary line gets neither.
C22_SecondaryLines ==
    LastWasList =>
        SecondaryLines(lastRequests, BulletsPosition(lastRequests), LastListMetas)

NestedSecondary(metas) ==
    \E k \in 2..Len(metas) :
        /\ ~metas[k].line.isPrimary /\ metas[k].level = 1
        /\ metas[k].line.text = <<"d">>
        /\ PrimaryLevelsBefore(metas, k) = 1
        /\ Emitted(IndentStyle(metas[k].startIndex - 1, metas[k].startIndex, 1))
        /\ Emitted(DeleteParagraphBullets(metas[k].startIndex - 1, metas[k].startIndex))

\* the secondary line d of a level-1 item has been corrected, 72pt
C22_Witness ==
    LastWasList /\ LastNode = DeepList /\ NestedSecondary(LastListMetas)

(***************************************************************************)
(* Spacing above and below a list (cheerio generation)                     *)
(***************************************************************************)
SpacingOps(reqs, style) ==
    SelectSeq(reqs, LAMBDA r : r.op = "updateParagraphStyle" /\ r.style = style)

\* the line k of the list at its corrected offset
CorrectedSpan(metas, k, style) ==
    UpdateParagraphStyle(
        metas[k].startIndex - PrimaryLevelsBefore(metas, k),
        metas[k].startIndex - PrimaryLevelsBefore(metas, k) + Len(metas[k].textToInsert),
        style)

ListSpacing(reqs, metas) ==
    /\ SpacingOps(reqs, "spaceAbove") = <<CorrectedSpan(metas, 1, "spaceAbove")>>
    /\ SpacingOps(reqs, "spaceBelow") = <<CorrectedSpan(metas, Len(metas), "spaceBelow")>>

\* C23: the spaceAbove style of a list covers its first flattened line at the
\* line's own start, and the spaceBelow style its last flattened line at the
\* start less the levels of the primary lines before it, nested items or not.
C23_ListSpacing ==
    (LastWasList /\ version = "cheerio" /\ LastListMetas # <<>>) =>
        ListSpacing(lastRequests, LastListMetas)

\* a nested list at the start of the document: the first line's spacing is
\* anchored one position before the list, at offset 0
C23_Witness ==
    /\ LastWasList /\ version = "cheerio" /\ LastNode = NestedList
    /\ prevIndex = 1
    /\ LastListMetas[1].startIndex = 1
    /\ Emitted(UpdateParagraphStyle(0, 1, "spaceAbove"))

(***************************************************************************)
(* List items without content                                              *)
(***************************************************************************)
\* the text nodes and inline elements of an <li>, its nested lists left out,
\* hold no character but whitespace
OwnContentEmpty(li) ==
    trim(processChildNodes("jsdom", nonNestedChildren(li)).text) = <<>>

InsertedText(reqs) ==
    Flatten([k \in 1..Len(reqs) |->
        IF reqs[k].op = "insertText" THEN reqs[k].text ELSE <<>>])

\* every <li> of the list has its entry, at its depth, with a line
EveryItemKept(flatItems, domItems) ==
    /\ Len(flatItems) = Len(domItems)
    /\ \A k \in 1..Len(flatItems) :
          /\ flatItems[k].level = domItems[k].depth
          /\ Len(flatItems[k].lines) >= 1
          /\ OwnContentEmpty(domItems[k].li) => flatItems[k].lines[1].text = <<>>

\* the text the list inserts holds the text of every line of every item
ListTextInserted(v, reqs, text) ==
    InsertedText(reqs) = IF v = "cheerio" THEN text ELSE <<NL>> \o text \o <<NL>>

\* C24: a list item whose own content is empty still has one flattened line,
\* an empty bullet line, in the flattened sequence and in the inserted list
\* text; nested items keep their levels.
C24_EmptyItemKept ==
    LastWasList =>
        /\ EveryItemKept(LastListItems, ListItemsWithDepth(LastNode, 0))
        /\ ListTextInserted(version, lastRequests, ListText(LastListItems))

\* the same, for the generation that has no lines per item
C24_EmptyItemKeptJsdom ==
    (LastWasList /\ version = "jsdom") =>
        /\ EveryItemKept(LastListItems, ListItemsWithDepth(LastNode, 0))
        /\ ListTextInserted(version, lastRequests, ListText(LastListItems))

\* the list of three <li>, the last one empty, flattened to the two items
\* with lines: a, b and c, d
C24_Witness ==
    /\ LastWasList /\ LastNode = LinesList /\ version # "jsdom"
    /\ Len(ListItemsWithDepth(LastNode, 0)) = 3
    /\ OwnContentEmpty(ListItemsWithDepth(LastNode, 0)[3].li)
    /\ Len(LastListItems) = 2
    /\ LineCount(LastListItems) = 4

(***************************************************************************)
(* Spacing above and below a blockquote (cheerio generation)               *)
(***************************************************************************)
LastWasQuote == Processed /\ LastNode.name = "BLOCKQUOTE"

\* the quoted text: what the block inserts, less the newline that ends it
QuotedText(reqs) == SubSeq(reqs[1].text, 1, Len(reqs[1].text) - 1)

\* spaceAbove over the first physical line, spaceBelow over the last one
QuoteSpacing(reqs, i, text, lines) ==
    /\ SpacingOps(reqs, "spaceAbove")
          = <<UpdateParagraphStyle(i, i + Len(lines[1]), "spaceAbove")>>
    /\ SpacingOps(reqs, "spaceBelow")
          = <<UpdateParagraphStyle(i + Len(text) - Len(lines[Len(lines)]),
                                   i + Len(text), "spaceBelow")>>

\* C25: a blockquote inserted at i whose quoted text has the physical lines
\* L1..Ln gets spaceAbove over [i, i + len(L1)] and spaceBelow over
\* [i + len(text) - len(Ln), i + len(text)]; with one line both ranges are
\* the span of the whole quoted text.
C25_QuoteSpacing ==
    (LastWasQuote /\ version = "cheerio") =>
        QuoteSpacing(lastRequests, prevIndex, QuotedText(lastRequests),
                     splitLines(QuotedText(lastRequests)))

\* the one-line quote a: spaceAbove over [i, i + 1], spaceBelow over
\* [i + 2, i + 1]
C25_Witness ==
    /\ LastWasQuote /\ version = "cheerio" /\ LastNode = ShortQuote
    /\ lastRequests[1] = InsertText(prevIndex, <<"a", NL>>)
    /\ Emitted(UpdateParagraphStyle(prevIndex, prevIndex + 1, "spaceAbove"))
    /\ Emitted(UpdateParagraphStyle(prevIndex + 2, prevIndex + 1, "spaceBelow"))

(***************************************************************************)
(* Paragraphs that hold an image                                           *)
(***************************************************************************)
LastWasMixed ==
    Processed /\ LastNode.name = "P" /\ descendants(LastNode, {"IMG"}) # <<>>

InlineStyles == {"bold", "italic", "code", "link"}

TextStylesOf(reqs) ==
    {reqs[k] : k \in {j \in 1..Len(reqs) :
        reqs[j].op = "updateTextStyle" /\ reqs[j].style \in InlineStyles}}

\* what request k of the paragraph puts into the document
InsertedBy(req) ==
    IF req.op = "insertText" THEN Len(req.text)
    ELSE IF req.op = "insertInlineImage" THEN 1 ELSE 0

\* the styles of the markup nodes of the paragraph's children from k on, the
\* first of them placed at cursor: a child's own markup and the markup inside
\* it, each over its text
RECURSIVE MarkupStylesFrom(_, _, _, _)
MarkupStylesFrom(v, children, k, cursor) ==
    IF k > Len(children) THEN {}
    ELSE IF IsText(children[k])
    THEN MarkupStylesFrom(v, children, k + 1,
             IF trim(children[k].text) # <<>> THEN cursor + Len(children[k].text)
             ELSE cursor)
    ELSE IF children[k].name = "IMG"
    THEN MarkupStylesFrom(v, children, k + 1,
             cursor + SumSeq([j \in 1..Len(processImage(v, children[k], cursor)) |->
                                InsertedBy(processImage(v, children[k], cursor)[j])]))
    ELSE IF trim(textContent(children[k])) # <<>>
    THEN {r \in TextStylesOf(formatRequests(
                    processChildNodes(v, <<children[k]>>).ranges, cursor)) : TRUE}
         \cup MarkupStylesFrom(v, children, k + 1,
                  cursor + Len(processChildNodes(v, <<children[k]>>).text))
    ELSE MarkupStylesFrom(v, children, k + 1, cursor)

\* the last request is the closing newline, placed behind all the paragraph
\* has inserted before it
ClosedAtEnd(reqs, i) ==
    /\ reqs # <<>>
    /\ reqs[Len(reqs)]
         = InsertText(i + SumSeq([j \in 1..(Len(reqs) - 1) |-> InsertedBy(reqs[j])]),
                      <<NL>>)

\* C26: in a paragraph with an image every inline markup node, a direct child
\* of the paragraph included, has its text style over exactly its text, and
\* the closing newline is inserted behind the whole content.
C26_MixedContentStyles ==
    LastWasMixed =>
        /\ TextStylesOf(lastRequests) = MarkupStylesFrom(version, LastNode.kids, 1, prevIndex)
        /\ ClosedAtEnd(lastRequests, prevIndex)

\* the cursor part alone
C26_MixedContentCursor == LastWasMixed => ClosedAtEnd(lastRequests, prevIndex)

\* a![x](..)**b**: b inserted behind the image, no style for it
C26_Witness ==
    /\ LastWasMixed /\ LastNode = ImageParagraph
    /\ Emitted(InsertText(prevIndex + 4, <<"b">>))
    /\ Emitted(InsertText(prevIndex + 5, <<NL>>))
    /\ TextStylesOf(lastRequests) = {}

(***************************************************************************)
(* The start index only translates the operations                          *)
(***************************************************************************)
\* every location index and every range bound of reqs increased by d
Translated(reqs, d) == [k \in 1..Len(reqs) |-> ShiftBack(reqs[k], 0 - d)]

\* C27: the operation list produced from start index s is the list produced
\* from start index 1 with every location index and every range bound
\* increased by s - 1, and nothing else changed.
C27_TranslationInvariant ==
    Returned =>
        requests = Translated(convertFrom(version, elements, 1, 1, <<>>), startIndex - 1)

\* a conversion of two blocks from start index 3 that holds an insertion at 3
\* and a range operation, and whose second block is placed behind the first
C27_Witness ==
    /\ Returned /\ startIndex = 3 /\ Len(elements) = 2
    /\ requests # <<>> /\ requests[1].op = "insertText" /\ requests[1].index = 3
    /\ \E k \in 1..Len(requests) : requests[k].op \in RangeOps /\ requests[k].startIndex >= 3
    /\ lastRequests # <<>> /\ prevIndex > 3

(***************************************************************************)
(* The cursor moves forward                                                *)
(***************************************************************************)
\* C28: across the blocks of a conversion the cursor never decreases; a block
\* that emits operations emits an InsertText among them, so that
\* calculateNewIndex does not fall back to 1, and moves the cursor forward.
C28_CursorForward ==
    Processed =>
        /\ insertIndex >= prevIndex
        /\ lastRequests # <<>> =>
              /\ InsertTexts(lastRequests) # <<>>
              /\ insertIndex > prevIndex

\* the second block of a conversion emitted operations and moved the cursor
\* that the first block had moved already
C28_Witness ==
    /\ pos = 3 /\ lastRequests # <<>>
    /\ prevIndex > startIndex /\ insertIndex > prevIndex
    /\ insertIndex = calculateNewIndex(lastRequests)

(***************************************************************************)
(* The execute loop handles each input item once                           *)
(***************************************************************************)
Executing == xpc # "idle"

PairedItems(entries) == {entries[k].pairedItem : k \in 1..Len(entries)}

\* C29: the loop runs over the items the node was handed, each once: the
\* list it iterates keeps its length, the counter stays within it, and the
\* output holds at most one entry per input item, paired with that item,
\* also with continueOnFail when an operation throws.
C29_EachItemOnce ==
    Executing =>
        /\ Len(items) = inputCount
        /\ itemIndex <= inputCount
        /\ Len(returnData) <= inputCount
        /\ PairedItems(returnData) \subseteq 0..(inputCount - 1)
        /\ Cardinality(PairedItems(returnData)) = Len(returnData)

\* the same without continueOnFail
C29_EachItemOnceFailFast ==
    (Executing /\ ~continueOnFail) =>
        /\ Len(items) = inputCount
        /\ itemIndex <= inputCount
        /\ Len(returnData) <= inputCount
        /\ PairedItems(returnData) \subseteq 0..(inputCount - 1)
        /\ Cardinality(PairedItems(returnData)) = Len(returnData)

\* one input item whose operation threw, continueOnFail: the loop has run a
\* second time, over the entry it pushed, and returns an entry paired with
\* item 1, which the input does not hold
C29_Witness ==
    /\ xpc = "returned" /\ continueOnFail /\ inputCount = 1
    /\ operationThrows(items[1].parameters)
    /\ Len(items) = 2 /\ items[2].error /\ itemIndex = 2
    /\ returnData = <<[pairedItem |-> 1]>>

(***************************************************************************)
(* C30: in createGoogleDocsDocumentWithAPI with a template and a non-blank *)
(* main-content placeholder: if no text run of a paragraph of the copied   *)
(* document contains the placeholder the call fails and neither a          *)
(* deleteContentRange batch nor a Markdown batch is ever submitted; if one *)
(* does, the batches are submitted in the order copy, replaceAllText batch *)
(* (holding no request for the placeholder's own key), deleteContentRange  *)
(* of the placeholder, Markdown batch, and the Markdown is converted from  *)
(* the start offset of the placeholder on.                                 *)
(***************************************************************************)
Submitted == SelectSeq(calls, LAMBDA c : c.method = "POST")

PlaceholderOffsets(content, text) ==
    UNION {{content[k].startIndex + i - 1 :
               i \in {j \in 1..Len(content[k].content) :
                          occursAt(content[k].content, text, j)}} :
           k \in {j \in 1..Len(content) :
                      content[j].paragraph /\ content[j].textRun}}

FirstOffset(offsets) == CHOOSE o \in offsets : \A other \in offsets : o <= other

OtherKeys(data, text) == SelectSeq(data, LAMBDA entry : braces(entry[1]) # text)

ReplaceBatch(data, text) ==
    [k \in 1..Len(OtherKeys(data, text)) |->
        [op |-> "replaceAllText", containsText |-> braces(OtherKeys(data, text)[k][1]),
         matchCase |-> FALSE, replaceText |-> OtherKeys(data, text)[k][2]]]

OptionalBatch(batch) ==
    IF batch = <<>> THEN <<>> ELSE <<Call("POST", "documents:batchUpdate", batch)>>

BeforeSearch(data, text) ==
    <<Call("POST", "files/copy", <<>>)>> \o OptionalBatch(ReplaceBatch(data, text))

MarkdownBatch(start) ==
    IF markdownInput.blank THEN <<>>
    ELSE convertFrom(version, bodyNodes(version, markdownInput.body), 1, start, <<>>)

FoundOrder(data, text, start) ==
    BeforeSearch(data, text)
        \o <<Call("POST", "documents:batchUpdate",
                  <<[NoReq EXCEPT !.op = "deleteContentRange", !.startIndex = start,
                                  !.endIndex = start + Len(text)]>>)>>
        \o OptionalBatch(MarkdownBatch(start))

IsPrefixOf(short, long) ==
    Len(short) <= Len(long) /\ SubSeq(long, 1, Len(short)) = short

Searched == templateDocumentId /\ SearchesPlaceholder /\ docResponse # <<>>

PlaceholderFlow(text, offsets) ==
    IF offsets = {}
    THEN /\ apc = "failed"
         /\ Submitted = BeforeSearch(placeholderData, text)
    ELSE /\ markdownInsertIndex = FirstOffset(offsets)
         /\ IsPrefixOf(BeforeSearch(placeholderData, text), Submitted)
         /\ IsPrefixOf(Submitted,
                       FoundOrder(placeholderData, text, FirstOffset(offsets)))
         /\ apc = "done" =>
                Submitted = FoundOrder(placeholderData, text, FirstOffset(offsets))
         /\ \A k \in 1..Len(Submitted) : \A r \in 1..Len(Submitted[k].requests) :
                Submitted[k].requests[r].op = "replaceAllText" =>
                    Submitted[k].requests[r].containsText # text

C30_PlaceholderFlow ==
    Searched =>
        PlaceholderFlow(mainContentPlaceholder.text,
                        PlaceholderOffsets(docResponse, mainContentPlaceholder.text))

\* the template "{{T}}\n", "a", "{{M}}\n" with values for T and M and a
\* paragraph of Markdown: four batches, the Markdown from offset 5 on
C30_Witness ==
    /\ Searched
    /\ apc = "done"
    /\ Len(placeholderData) = 2
    /\ Len(template) = 3
    /\ markdownInput.body = <<PlainParagraph>>
    /\ markdownInsertIndex = 5
    /\ Len(Submitted) = 4
    /\ Submitted[3].requests[1].startIndex = 5
    /\ Submitted[3].requests[1].endIndex = 10
    /\ Submitted[4].requests[1].index = 5

\* the placeholder is not found: the call has failed after copy and replace
C30_NotFound ==
    /\ Searched
    /\ PlaceholderOffsets(docResponse, mainContentPlaceholder.text) = {}
    /\ apc = "failed"
    /\ Len(Submitted) = 2

====
